---- MODULE Spec2Model ----
(***************************************************************************)
(* The concurrent reasoning-session store of sequential-thinking/main.go:  *)
(* SessionStore (a map of session pointers behind a RWMutex), the          *)
(* ThinkingSession / Thought objects it points to, and the tool handlers   *)
(* StartThinking, ContinueThinking, ReviewThinking and ThinkingHistory     *)
(* running as concurrent goroutines.                                       *)
(*                                                                         *)
(* Go values that are pointers or slices are modelled as addresses into    *)
(* one heap, so that aliasing (who shares which Thought, which backing     *)
(* array) is part of the state and not assumed away.                       *)
(***************************************************************************)
EXTENDS Integers, Sequences, FiniteSets, TLC

VARIABLES
  sessions,  \* SessionStore.sessions: session id -> address of a ThinkingSession
  heap,      \* the Go heap: address -> ThinkingSession | Thought | backing array
  mu,        \* SessionStore.mu: the goroutines holding the read or the write lock
  pc,        \* per goroutine: the position in the handler it runs
  args,      \* per goroutine: the arguments of the running call
  loc,       \* per goroutine: the local and captured variables of the call
  ret,       \* per goroutine: what the last finished call returned
  held,      \* per goroutine: pointers a direct caller of the store got back
  hist,      \* history (ghost): per session id, the writes made to the store
  ops,       \* number of calls issued so far
  thoughtHistory, \* SequentialThinkingServer.thoughtHistory (single-history server)
  branches,       \* SequentialThinkingServer.branches: branch id -> thoughts
  thoughtMu,      \* SequentialThinkingServer.mu: the goroutine holding it
  thinker,        \* per goroutine: position in ProcessThought and its input
  replies         \* history (ghost): the calls that passed validation and
                  \* what ProcessThought returned, in order of return

\* the state of the single-history server, a program of its own
thinking == <<thoughtHistory, branches, thoughtMu, thinker, replies>>

\* the state of the session store's server but for the count of calls
storing == <<sessions, heap, mu, pc, args, loc, ret, held, hist>>

vars == <<sessions, heap, mu, pc, args, loc, ret, held, hist, ops, thinking>>

(***************************************************************************)
(* Bounds of the model.                                                    *)
(***************************************************************************)
MaxOps == 3      \* calls issued in one behaviour of concurrent goroutines
MaxSeqOps == 5   \* calls issued in one behaviour of a single goroutine

Procs == {"p1", "p2"}

NIL == 0         \* the nil pointer / nil slice

NoProc == "none"

(***************************************************************************)
(* Heap objects.                                                           *)
(***************************************************************************)
Min(S) == CHOOSE x \in S : \A y \in S : x <= y

Range(f) == {f[x] : x \in DOMAIN f}

RECURSIVE SmallestN(_, _)
SmallestN(S, n) ==
  IF n = 0 THEN <<>>
  ELSE LET m == Min(S) IN <<m>> \o SmallestN(S \ {m}, n - 1)

\* new(T) / make: the n lowest free addresses of heap h
NewAddrs(h, n) ==
  SmallestN((1..(Cardinality(DOMAIN h) + n)) \ DOMAIN h, n)

\* the elements of a slice: a nil slice has none
Elems(h, ref) == IF ref = NIL THEN <<>> ELSE h[ref].elems

Array(es) == [kind |-> "array", elems |-> es]

\* type Thought struct
Thought(index, content, created, revised) ==
  [kind |-> "thought", Index |-> index, Content |-> content,
   Created |-> created, Revised |-> revised, ParentIndex |-> NIL]

\* type ThinkingSession struct; fields left out of a composite literal are zero
ThinkingSession(id, problem, thoughts, current, total, status, created, last) ==
  [kind |-> "session", ID |-> id, Problem |-> problem, Thoughts |-> thoughts,
   CurrentThought |-> current, EstimatedTotal |-> total, Status |-> status,
   Created |-> created, LastActivity |-> last, Branches |-> NIL, Version |-> 0]

\* deepCopyThoughts: a new backing array holding a copy of every Thought
deepCopyThoughtsShallow(h, ref) ==
  LET src == Elems(h, ref)
      a   == NewAddrs(h, 1)
  IN  [heap |-> h @@ (a[1] :> Array(src)), ref |-> a[1]]

deepCopyThoughts(h, ref) ==
  LET src == Elems(h, ref)
      n   == Len(src)
      a   == NewAddrs(h, n + 1)
  IN  [heap |-> h @@ (a[1] :> Array([i \in 1..n |-> a[i + 1]]))
                  @@ [x \in {a[i + 1] : i \in 1..n} |->
                        h[src[CHOOSE i \in 1..n : a[i + 1] = x]]],
       ref  |-> a[1]]

\* gslice.Clone: nil for a nil slice, else a new backing array, same elements
gsliceClone(h, ref) ==
  IF ref = NIL THEN [heap |-> h, ref |-> NIL]
  ELSE LET a == NewAddrs(h, 1)
       IN  [heap |-> h @@ (a[1] :> Array(h[ref].elems)), ref |-> a[1]]

\* ThinkingSession.clone
clone(h, s) ==
  LET c  == NewAddrs(h, 1)[1]
      h1 == h @@ (c :> h[s])
      t  == deepCopyThoughts(h1, h[s].Thoughts)
      b  == gsliceClone(t.heap, h[s].Branches)
  IN  [heap |-> [b.heap EXCEPT ![c].Thoughts = t.ref, ![c].Branches = b.ref],
       ref  |-> c]

\* what is reachable from a set of session pointers
Reach(h, roots) ==
  LET S == (roots \ {NIL}) \cap DOMAIN h
      A == ({h[s].Thoughts : s \in S} \cup {h[s].Branches : s \in S}) \ {NIL}
      T == UNION {Range(Elems(h, h[s].Thoughts)) : s \in S}
  IN  S \cup A \cup T

\* the garbage collector: objects nothing points to any more are gone
Collect(h, roots) ==
  LET R == Reach(h, roots) IN [x \in R |-> h[x]]

Roots(ss, lc, hd) ==
  Range(ss)
  \cup UNION {{lc[p].sessionCopy, lc[p].updated, lc[p].branchSession,
               lc[p].session} : p \in DOMAIN lc}
  \cup UNION {Range(hd[p].refs) : p \in DOMAIN hd}

\* the value a pointer to a session stands for: the session with its thoughts
\* and branch ids read through the pointers
Deep(h, s) ==
  [h[s] EXCEPT !.Thoughts = [i \in 1..Len(Elems(h, h[s].Thoughts)) |->
                               h[Elems(h, h[s].Thoughts)[i]]],
               !.Branches = Elems(h, h[s].Branches)]


(***************************************************************************)
(* Goroutine-local state and results.                                      *)
(***************************************************************************)
NoArgs == [op |-> "none"]

\* the local variables of CompareAndSwap and the variables the closures of
\* ContinueThinking capture. History only: attempts (reads of this call), base
\* (the session as read), dirty (the id was written after it was read) and
\* reset (by a SetSession)
LocInit ==
  [sessionCopy |-> NIL, oldVersion |-> 0, updated |-> NIL,
   branchID |-> "", branchSession |-> NIL, session |-> NIL,
   thoughtID |-> 0, progress |-> "", statusMsg |-> "",
   attempts |-> 0, dirty |-> FALSE, reset |-> FALSE, base |-> <<>>,
   rivals |-> 0]

NoHeld == [via |-> "none", refs |-> <<>>, muts |-> 0]

\* what a finished call returned: the error (or "nil"), and the session or
\* branch id and the step number its text names; attempts is history only
NoResult ==
  [op |-> "none", err |-> "nil", id |-> "", step |-> 0, out |-> <<>>,
   attempts |-> 0]

Result(op, err, id, step, l) ==
  [op |-> op, err |-> err, id |-> id, step |-> step, out |-> <<>>,
   attempts |-> l.attempts]

\* the write history of an id nothing was stored under yet
\* (of the last SetSession of the id: the number of thoughts it stored and the
\* version of the entry it replaced, -1 if none; of the commits since: the
\* baseline versions and the appended contents, in commit order, whether one
\* of them replaced an entry written after its read (stale), whether one of
\* them had read the entry before that SetSession (overPut), and whether one
\* of them was an append with nextNeeded = false (final); and the number of
\* branch commits on the id since its last StartThinking (branched))
NoHist ==
  [putLen |-> 0, replaced |-> -1, baselines |-> <<>>, appended |-> <<>>,
   stale |-> FALSE, overPut |-> FALSE, final |-> FALSE, branched |-> 0]

\* the goroutines that have read id in CompareAndSwap and not yet committed
InFlight(id) ==
  {q \in Procs : /\ pc[q] \in {"cas_update", "cas_lock", "cas_commit"}
                 /\ args[q].SessionID = id}

\* history: a write to id by p (put: by SetSession) marks the reads of id
\* still in flight
MarkDirty(lc, p, id, put) ==
  [q \in Procs |-> IF q # p /\ q \in InFlight(id)
                   THEN [lc[q] EXCEPT !.dirty = TRUE, !.reset = @ \/ put,
                                      !.rivals = @ + 1]
                   ELSE lc[q]]

\* time.Now(): the clock ticks once for every call issued
Now == ops

\* sync.RWMutex
Unlocked == [readers |-> {}, writer |-> NoProc]
CanRLock == mu.writer = NoProc
CanLock == mu.writer = NoProc /\ mu.readers = {}
RLock(p) == [mu EXCEPT !.readers = @ \cup {p}]

\* s.mu.RUnlock() left out: the read lock stays held
RUnlockMissing(p) == mu

RUnlock(p) == [mu EXCEPT !.readers = @ \ {p}]
Lock(p) == [mu EXCEPT !.writer = p]
Unlock(p) == [mu EXCEPT !.writer = NoProc]

\* fmt.Sprintf("%s_branch_%d", sessionID, n) with the count one too low
BranchIDZeroBased(sessionID, n) == sessionID \o "_branch_" \o ToString(n - 1)

\* fmt.Sprintf("%s_branch_%d", sessionID, n)
BranchID(sessionID, n) == sessionID \o "_branch_" \o ToString(n)

\* estimatedSteps: 5 when the caller gave none
DefaultEstimatedSteps == 5

\* ids rand.Text() can return: 26 random characters, taken not to collide with
\* an id in use
GenIDs == {"g1"}

(***************************************************************************)
(* Init: NewSessionStore() and no call running.                            *)
(***************************************************************************)
EmptyMap == [x \in {} |-> NIL]

\* a goroutine of the single-history server that runs no call
NoThinker == [pc |-> "idle", input |-> <<>>]

Init ==
  /\ thoughtHistory = <<>>
  /\ branches = EmptyMap
  /\ thoughtMu = NoProc
  /\ thinker = [p \in Procs |-> NoThinker]
  /\ replies = <<>>
  /\ sessions = EmptyMap
  /\ heap = EmptyMap
  /\ mu = Unlocked
  /\ pc = [p \in Procs |-> "idle"]
  /\ args = [p \in Procs |-> NoArgs]
  /\ loc = [p \in Procs |-> LocInit]
  /\ ret = [p \in Procs |-> NoResult]
  /\ held = [p \in Procs |-> NoHeld]
  /\ hist = EmptyMap
  /\ ops = 0

(***************************************************************************)
(* StartThinking and SessionStore.SetSession.                              *)
(***************************************************************************)
\* estimatedSteps: the caller's, or the default when it is 0 (none given)
estimatedStepsAlwaysDefault(given) == DefaultEstimatedSteps

estimatedStepsOf(given) == IF given = 0 THEN DefaultEstimatedSteps ELSE given

\* the ids of the sessions StartThinking has built and not yet stored
Starting ==
  {heap[loc[q].session].ID : q \in {r \in Procs : args[r].op = "start"}}

\* StartThinking up to its call of store.SetSession
StartThinking(p, a) ==
  /\ pc[p] = "idle"
  /\ \E sessionID \in (IF a.SessionID = ""
                        THEN GenIDs \ (DOMAIN sessions \cup Starting)
                        ELSE {a.SessionID}) :
       LET estimatedSteps == estimatedStepsOf(a.EstimatedSteps)
           s  == NewAddrs(heap, 1)[1]
           h1 == heap @@ (s :> ThinkingSession(sessionID, a.Problem, NIL, 0,
                                               estimatedSteps, "active", Now, Now))
       IN  /\ args' = [args EXCEPT ![p] =
                         [op |-> "start", Problem |-> a.Problem,
                          SessionID |-> a.SessionID,
                          EstimatedSteps |-> a.EstimatedSteps]]
           /\ loc' = [loc EXCEPT ![p] = [LocInit EXCEPT !.session = s]]
           /\ heap' = Collect(h1, Roots(sessions, loc', held))
  /\ pc' = [pc EXCEPT ![p] = "set_lock"]
  /\ ret' = [ret EXCEPT ![p] = NoResult]
  /\ ops' = ops + 1
  /\ UNCHANGED <<sessions, mu, held, hist, thinking>>

\* SetSession: s.mu.Lock()
SetSessionLock(p) ==
  /\ pc[p] = "set_lock"
  /\ CanLock
  /\ mu' = Lock(p)
  /\ pc' = [pc EXCEPT ![p] = "set_store"]
  /\ UNCHANGED <<sessions, heap, args, loc, ret, held, hist, ops, thinking>>

\* a map that keeps only the entry assigned last
mapAssignAlone(ss, id, s) == id :> s

\* an assignment that leaves an existing entry as it is
mapAssignIfAbsent(ss, id, s) == IF id \in DOMAIN ss THEN ss ELSE (id :> s) @@ ss

\* s.sessions[session.ID] = session: the entry is added or replaced, the other
\* entries stay
mapAssign(ss, id, s) == (id :> s) @@ ss

\* SetSession: s.sessions[session.ID] = session, the deferred Unlock, and the
\* caller's return (StartThinking, or the branch case of ContinueThinking)
SetSessionStore(p) ==
  /\ pc[p] = "set_store"
  /\ LET s  == loc[p].session
         id == heap[s].ID
     IN  /\ sessions' = mapAssign(sessions, id, s)
         /\ hist' = (id :> [NoHist EXCEPT
                              !.putLen = Len(Elems(heap, heap[s].Thoughts)),
                              !.replaced = IF id \in DOMAIN sessions
                                           THEN heap[sessions[id]].Version
                                           ELSE -1,
                              !.branched = IF args[p].op = "continue"
                                              /\ id \in DOMAIN hist
                                           THEN hist[id].branched
                                           ELSE 0]) @@ hist
         /\ loc' = MarkDirty([loc EXCEPT ![p] = LocInit], p, id, TRUE)
  /\ mu' = Unlock(p)
  /\ ret' = [ret EXCEPT ![p] =
               Result(args[p].op, "nil", heap[loc[p].session].ID, 0, loc[p])]
  /\ pc' = [pc EXCEPT ![p] = "idle"]
  /\ args' = [args EXCEPT ![p] = NoArgs]
  /\ heap' = Collect(heap, Roots(sessions', loc', held))
  /\ UNCHANGED <<held, ops, thinking>>


(***************************************************************************)
(* The three update functions ContinueThinking hands to CompareAndSwap.    *)
(* Each takes the heap, the caller's variables l (l.sessionCopy is the     *)
(* session it is applied to), the arguments a and the time t, and returns  *)
(* the error, the heap and the caller's variables after it ran.            *)
(***************************************************************************)
Thoughts(h, s) == Elems(h, h[s].Thoughts)

Branches(h, s) == Elems(h, h[s].Branches)

\* append(slice, x): the elements followed by x, in a backing array no other
\* slice refers to (the slice appended to is always a private copy)
appendSlice(h, ref, x) ==
  LET a == NewAddrs(h, 1)[1]
  IN  [heap |-> h @@ (a :> Array(Append(Elems(h, ref), x))), ref |-> a]

\* the range check of the revision: stepIndex < 0 || stepIndex >= len
stepInvalidLoose(stepIndex, n) == stepIndex < 0 \/ stepIndex > n

stepInvalid(stepIndex, n) == stepIndex < 0 \/ stepIndex >= n

\* the revision leaves every field but these alone
reviseFieldsExtra(h, s, th, a, t) ==
  [h EXCEPT ![th].Content = a.Thought, ![th].Revised = TRUE,
            ![s].LastActivity = t, ![s].CurrentThought = h[th].Index - 1]

\* the revision with the session taken back to active
reviseFieldsReopen(h, s, th, a, t) ==
  [h EXCEPT ![th].Content = a.Thought, ![th].Revised = TRUE,
            ![s].LastActivity = t, ![s].Status = "active"]

reviseFields(h, s, th, a, t) ==
  [h EXCEPT ![th].Content = a.Thought, ![th].Revised = TRUE,
            ![s].LastActivity = t]

reviseFunc(h, l, a, t) ==
  LET s         == l.sessionCopy
      stepIndex == a.ReviseStep[1] - 1
      th        == Thoughts(h, s)
  IN  IF stepInvalid(stepIndex, Len(th))
      THEN [err |-> "invalid step number", heap |-> h, loc |-> l]
      ELSE IF stepIndex + 1 \notin 1..Len(th)
      THEN [err |-> "panic: index out of range", heap |-> h, loc |-> l]
      ELSE [err  |-> "nil",
            heap |-> reviseFields(h, s, th[stepIndex + 1], a, t),
            loc  |-> [l EXCEPT !.updated = s]]

branchFunc(h, l, a, t) ==
  LET s        == l.sessionCopy
      branchID == BranchID(a.SessionID, Len(Branches(h, s)) + 1)
      b        == appendSlice(h, h[s].Branches, branchID)
      h1       == [b.heap EXCEPT ![s].Branches = b.ref, ![s].LastActivity = t]
      c        == deepCopyThoughts(h1, h1[s].Thoughts)
      bs       == NewAddrs(c.heap, 1)[1]
      h2       == c.heap @@
                  (bs :> ThinkingSession(branchID,
                           h1[s].Problem \o " (Alternative branch)", c.ref,
                           Len(Thoughts(h1, s)), h1[s].EstimatedTotal,
                           "active", t, t))
  IN  [err  |-> "nil",
       heap |-> h2,
       loc  |-> [l EXCEPT !.updated = s, !.branchID = branchID,
                          !.branchSession = bs]]

\* a variable of ContinueThinking that keeps what the first run of the closure
\* gave it
assignCapturedOnce(previous, computed) ==
  IF previous = 0 THEN computed ELSE previous

\* the closure assigns a variable of ContinueThinking each time it runs
assignCaptured(previous, computed) == computed

\* thoughtID = len(session.Thoughts) + 1
thoughtIDOfLen(n) == n

thoughtIDOf(n) == n + 1

\* the status after an append: completed when the caller passed nextNeeded = false
statusAfterAlways(status, nextNeeded) ==
  IF nextNeeded # <<TRUE>> THEN "completed" ELSE status

\* the status after an append, with the flag's presence taken for its value
statusAfterAnyFlag(status, nextNeeded) ==
  IF nextNeeded # <<>> THEN "completed" ELSE status

statusAfter(status, nextNeeded) ==
  IF nextNeeded # <<>> /\ ~nextNeeded[1] THEN "completed" ELSE status

appendFunc(h, l, a, t) ==
  LET s         == l.sessionCopy
      thoughtID == thoughtIDOf(Len(Thoughts(h, s)))
      th        == NewAddrs(h, 1)[1]
      h1        == h @@ (th :> Thought(thoughtID, a.Thought, t, FALSE))
      ts        == appendSlice(h1, h1[s].Thoughts, th)
      total     == IF a.EstimatedTotal > 0 THEN a.EstimatedTotal
                   ELSE h[s].EstimatedTotal
      status    == statusAfter(h[s].Status, a.NextNeeded)
      h2        == [ts.heap EXCEPT ![s].Thoughts = ts.ref,
                                   ![s].CurrentThought = thoughtID,
                                   ![s].LastActivity = t,
                                   ![s].EstimatedTotal = total,
                                   ![s].Status = status]
  IN  [err  |-> "nil",
       heap |-> h2,
       loc  |-> [l EXCEPT !.updated = s,
                          !.thoughtID = assignCaptured(l.thoughtID, thoughtID),
                          !.progress = IF total > 0
                                       THEN "Step " \o ToString(thoughtID)
                                            \o " of ~" \o ToString(total)
                                       ELSE "Step " \o ToString(thoughtID),
                          !.statusMsg = IF status = "completed"
                                        THEN "Thinking process completed!"
                                        ELSE "Ready for next thought..."]]

\* createBranch tested before reviseStep
ModeBranchFirst(a) ==
  IF a.CreateBranch THEN "branch"
  ELSE IF a.ReviseStep # <<>> THEN "revise"
  ELSE "append"

\* which of the three ContinueThinking runs: a revision, else a branch, else
\* an append
Mode(a) ==
  IF a.ReviseStep # <<>> THEN "revise"
  ELSE IF a.CreateBranch THEN "branch"
  ELSE "append"

updateFunc(h, l, a, t) ==
  IF Mode(a) = "revise" THEN reviseFunc(h, l, a, t)
  ELSE IF Mode(a) = "branch" THEN branchFunc(h, l, a, t)
  ELSE appendFunc(h, l, a, t)


(***************************************************************************)
(* ContinueThinking and SessionStore.CompareAndSwap.                       *)
(***************************************************************************)
\* ContinueThinking up to its call of store.CompareAndSwap
ContinueThinking(p, a) ==
  /\ pc[p] = "idle"
  /\ args' = [args EXCEPT ![p] =
                [op |-> "continue", SessionID |-> a.SessionID, Thought |-> a.Thought,
                 NextNeeded |-> a.NextNeeded, ReviseStep |-> a.ReviseStep,
                 CreateBranch |-> a.CreateBranch,
                 EstimatedTotal |-> a.EstimatedTotal]]
  /\ loc' = [loc EXCEPT ![p] = LocInit]
  /\ pc' = [pc EXCEPT ![p] = "cas_rlock"]
  /\ ret' = [ret EXCEPT ![p] = NoResult]
  /\ ops' = ops + 1
  /\ UNCHANGED <<sessions, heap, mu, held, hist, thinking>>

\* CompareAndSwap: s.mu.RLock() at the top of the loop
CASRLock(p) ==
  /\ pc[p] = "cas_rlock"
  /\ CanRLock
  /\ mu' = RLock(p)
  /\ loc' = [loc EXCEPT ![p].attempts = @ + 1]
  /\ pc' = [pc EXCEPT ![p] = "cas_read"]
  /\ UNCHANGED <<sessions, heap, args, ret, held, hist, ops, thinking>>

\* current, exists := s.sessions[sessionID]: nil, false for a missing key
mapIndexAlwaysOk(ss, id) ==
  [current |-> IF id \in DOMAIN ss THEN ss[id] ELSE NIL, exists |-> TRUE]

mapIndex(ss, id) ==
  IF id \in DOMAIN ss THEN [current |-> ss[id], exists |-> TRUE]
  ELSE [current |-> NIL, exists |-> FALSE]

\* CompareAndSwap: look the session up, clone it, remember its version, RUnlock
CASRead(p) ==
  /\ pc[p] = "cas_read"
  /\ LET sessionID == args[p].SessionID
         m         == mapIndex(sessions, sessionID)
     IN  IF ~m.exists \/ m.current = NIL
         THEN /\ ret' = [ret EXCEPT ![p] =
                           Result("continue",
                                  IF ~m.exists THEN "not found"
                                  ELSE "panic: nil pointer dereference",
                                  sessionID, 0, loc[p])]
              /\ pc' = [pc EXCEPT ![p] = "idle"]
              /\ args' = [args EXCEPT ![p] = NoArgs]
              /\ loc' = [loc EXCEPT ![p] = LocInit]
              /\ heap' = Collect(heap, Roots(sessions, loc', held))
         ELSE LET current == m.current
                  c       == clone(heap, current)
              IN  /\ loc' = [loc EXCEPT ![p] =
                               [@ EXCEPT !.sessionCopy = c.ref,
                                         !.oldVersion = heap[current].Version,
                                         !.updated = NIL,
                                         !.dirty = FALSE,
                                         !.reset = FALSE,
                                         !.base = Deep(heap, current)]]
                  /\ heap' = Collect(c.heap, Roots(sessions, loc', held))
                  /\ pc' = [pc EXCEPT ![p] = "cas_update"]
                  /\ UNCHANGED <<args, ret>>
  /\ mu' = RUnlock(p)
  /\ UNCHANGED <<sessions, held, hist, ops, thinking>>

\* CompareAndSwap: updated, err := updateFunc(sessionCopy), with no lock held;
\* an error is returned as it is
CASUpdate(p) ==
  /\ pc[p] = "cas_update"
  /\ LET r == updateFunc(heap, loc[p], args[p], Now)
     IN  IF r.err # "nil"
         THEN /\ ret' = [ret EXCEPT ![p] =
                           Result("continue", r.err, args[p].SessionID, 0, loc[p])]
              /\ pc' = [pc EXCEPT ![p] = "idle"]
              /\ args' = [args EXCEPT ![p] = NoArgs]
              /\ loc' = [loc EXCEPT ![p] = LocInit]
              /\ heap' = Collect(r.heap, Roots(sessions, loc', held))
         ELSE /\ loc' = [loc EXCEPT ![p] = r.loc]
              /\ heap' = Collect(r.heap, Roots(sessions, loc', held))
              /\ pc' = [pc EXCEPT ![p] = "cas_lock"]
              /\ UNCHANGED <<args, ret>>
  /\ UNCHANGED <<sessions, mu, held, hist, ops, thinking>>

\* CompareAndSwap: s.mu.Lock()
CASLock(p) ==
  /\ pc[p] = "cas_lock"
  /\ CanLock
  /\ mu' = Lock(p)
  /\ pc' = [pc EXCEPT ![p] = "cas_commit"]
  /\ UNCHANGED <<sessions, heap, args, loc, ret, held, hist, ops, thinking>>

\* current.Version != oldVersion
versionMismatchNever(currentVersion, oldVersion) == FALSE

\* current.Version != oldVersion with the comparison the wrong way round
versionMismatchInverted(currentVersion, oldVersion) == currentVersion = oldVersion

versionMismatch(currentVersion, oldVersion) == currentVersion # oldVersion

\* updated.Version = oldVersion + 1
newVersionDown(oldVersion) == oldVersion - 1

newVersion(oldVersion) == oldVersion + 1

\* CompareAndSwap: under the write lock, re-read the entry; retry on a version
\* mismatch, else set the version, replace the entry, Unlock and return nil.
\* Back in ContinueThinking a revision or an append returns its text and a
\* branch goes on to store.SetSession(branchSession).
CASCommit(p) ==
  /\ pc[p] = "cas_commit"
  /\ LET sessionID == args[p].SessionID
         l         == loc[p]
     IN  IF sessionID \notin DOMAIN sessions
         THEN /\ ret' = [ret EXCEPT ![p] =
                           Result("continue", "not found", sessionID, 0, l)]
              /\ pc' = [pc EXCEPT ![p] = "idle"]
              /\ args' = [args EXCEPT ![p] = NoArgs]
              /\ loc' = [loc EXCEPT ![p] = LocInit]
              /\ heap' = Collect(heap, Roots(sessions, loc', held))
              /\ UNCHANGED <<sessions, hist>>
         ELSE IF versionMismatch(heap[sessions[sessionID]].Version, l.oldVersion)
         THEN /\ pc' = [pc EXCEPT ![p] = "cas_rlock"]
              /\ loc' = [loc EXCEPT ![p] =
                           [@ EXCEPT !.sessionCopy = NIL, !.updated = NIL,
                                     !.oldVersion = 0]]
              /\ heap' = Collect(heap, Roots(sessions, loc', held))
              /\ UNCHANGED <<sessions, args, ret, hist>>
         ELSE /\ sessions' = [sessions EXCEPT ![sessionID] = l.updated]
              /\ hist' = [hist EXCEPT ![sessionID] =
                   [@ EXCEPT !.baselines = Append(@, l.oldVersion),
                             !.appended = IF Mode(args[p]) = "append"
                                          THEN Append(@, args[p].Thought) ELSE @,
                             !.stale = @ \/ l.dirty,
                             !.overPut = @ \/ l.reset,
                             !.final = @ \/ (Mode(args[p]) = "append"
                                             /\ args[p].NextNeeded = <<FALSE>>),
                             !.branched = IF Mode(args[p]) = "branch"
                                          THEN @ + 1 ELSE @]]
              /\ IF Mode(args[p]) = "branch"
                 THEN /\ loc' = MarkDirty([loc EXCEPT ![p] =
                                   [@ EXCEPT !.session = l.branchSession,
                                             !.sessionCopy = NIL, !.updated = NIL]],
                                   p, sessionID, FALSE)
                      /\ pc' = [pc EXCEPT ![p] = "set_lock"]
                      /\ UNCHANGED <<args, ret>>
                 ELSE /\ loc' = MarkDirty([loc EXCEPT ![p] = LocInit], p,
                                           sessionID, FALSE)
                      /\ pc' = [pc EXCEPT ![p] = "idle"]
                      /\ args' = [args EXCEPT ![p] = NoArgs]
                      /\ ret' = [ret EXCEPT ![p] =
                                   Result("continue", "nil", sessionID,
                                          IF Mode(args[p]) = "revise"
                                          THEN args[p].ReviseStep[1]
                                          ELSE l.thoughtID, l)]
              /\ heap' = Collect([heap EXCEPT ![l.updated].Version =
                                                newVersion(l.oldVersion)],
                                 Roots(sessions', loc', held))
  /\ mu' = Unlock(p)
  /\ UNCHANGED <<held, ops, thinking>>


(***************************************************************************)
(* ReviewThinking, ThinkingHistory and the snapshot reads of the store.    *)
(***************************************************************************)
\* ReviewThinking up to its call of store.SessionSnapshot
ReviewThinking(p, a) ==
  /\ pc[p] = "idle"
  /\ args' = [args EXCEPT ![p] = [op |-> "review", SessionID |-> a.SessionID]]
  /\ loc' = [loc EXCEPT ![p] = LocInit]
  /\ pc' = [pc EXCEPT ![p] = "snap_rlock"]
  /\ ret' = [ret EXCEPT ![p] = NoResult]
  /\ ops' = ops + 1
  /\ UNCHANGED <<sessions, heap, mu, held, hist, thinking>>

\* ThinkingHistory up to its call of store.SessionsSnapshot or SessionSnapshot;
\* a.SessionID is the host of the thinking:// URI
ThinkingHistory(p, a) ==
  /\ pc[p] = "idle"
  /\ args' = [args EXCEPT ![p] = [op |-> "history", SessionID |-> a.SessionID]]
  /\ loc' = [loc EXCEPT ![p] = LocInit]
  /\ pc' = [pc EXCEPT ![p] = "snap_rlock"]
  /\ ret' = [ret EXCEPT ![p] = NoResult]
  /\ ops' = ops + 1
  /\ UNCHANGED <<sessions, heap, mu, held, hist, thinking>>

\* SessionSnapshot / SessionsSnapshot: s.mu.RLock()
SnapshotRLock(p) ==
  /\ pc[p] = "snap_rlock"
  /\ CanRLock
  /\ mu' = RLock(p)
  /\ pc' = [pc EXCEPT ![p] = "snap_read"]
  /\ UNCHANGED <<sessions, heap, args, loc, ret, held, hist, ops, thinking>>

\* the orders in which a range over the map can visit its keys
Orders(S) == {o \in [1..Cardinality(S) -> S] : Range(o) = S}

\* SessionSnapshot: the clone of the entry, or nil, false
SessionSnapshot(h, id) ==
  IF id \notin DOMAIN sessions THEN [heap |-> h, refs |-> <<>>, exists |-> FALSE]
  ELSE LET c == clone(h, sessions[id])
       IN  [heap |-> c.heap, refs |-> <<c.ref>>, exists |-> TRUE]

\* SessionsSnapshot: the clones of all entries, in the order o of the range
RECURSIVE SessionsSnapshot(_, _)
SessionsSnapshot(h, o) ==
  IF o = <<>> THEN [heap |-> h, refs |-> <<>>, exists |-> TRUE]
  ELSE LET c    == clone(h, sessions[Head(o)])
           rest == SessionsSnapshot(c.heap, Tail(o))
       IN  [heap |-> rest.heap, refs |-> <<c.ref>> \o rest.refs, exists |-> TRUE]

\* the marker put after every thought, revised or not
revisedMarkerAlways(thought) == " (revised)"

\* status := ""; if thought.Revised { status = " (revised)" }
revisedMarker(thought) == IF thought.Revised THEN " (revised)" ELSE ""

\* the text ReviewThinking builds from a snapshot
Review(v) ==
  [ID |-> v.ID, Problem |-> v.Problem, Status |-> v.Status,
   Steps |-> Len(v.Thoughts), Of |-> v.EstimatedTotal,
   Branches |-> IF Len(v.Branches) > 0 THEN <<v.Branches>> ELSE <<>>,
   Sequence |-> [i \in 1..Len(v.Thoughts) |->
                   [n |-> i, Content |-> v.Thoughts[i].Content,
                    status |-> revisedMarker(v.Thoughts[i])]]]

\* gson.MarshalIndentBy of the snapshots: a JSON array of the sessions for the
\* slice SessionsSnapshot returns, a JSON object for one session
MarshalIndentBy(all, vals) ==
  IF all THEN [json |-> "array", of |-> vals]
  ELSE [json |-> "object", of |-> <<vals[1]>>]

\* the snapshot read, the deferred RUnlock, and the rest of ReviewThinking or
\* ThinkingHistory: the text built from the snapshot, or the not-found error
SnapshotRead(p) ==
  /\ pc[p] = "snap_read"
  /\ \E o \in Orders(DOMAIN sessions) :
       LET id   == args[p].SessionID
           all  == args[p].op = "history" /\ id = "sessions"
           snap == IF all THEN SessionsSnapshot(heap, o)
                   ELSE SessionSnapshot(heap, id)
           vals == [i \in 1..Len(snap.refs) |-> Deep(snap.heap, snap.refs[i])]
       IN  ret' = [ret EXCEPT ![p] =
                     IF ~snap.exists
                     THEN Result(args[p].op, "not found", id, 0, loc[p])
                     ELSE [Result(args[p].op, "nil", id, 0, loc[p]) EXCEPT
                             !.out = IF args[p].op = "review" THEN Review(vals[1])
                                     ELSE MarshalIndentBy(all, vals)]]
  /\ mu' = RUnlock(p)
  /\ pc' = [pc EXCEPT ![p] = "idle"]
  /\ args' = [args EXCEPT ![p] = NoArgs]
  /\ UNCHANGED <<sessions, heap, loc, held, hist, ops, thinking>>

(***************************************************************************)
(* The calls the goroutines issue.                                         *)
(***************************************************************************)
StartInputs == [Problem : {"p"}, SessionID : {"a"}, EstimatedSteps : {0}]

\* *bool and *int arguments: <<>> is nil, <<v>> points to v
ContinueInputs ==
  [SessionID : {"a"}, Thought : {"t1"}, NextNeeded : {<<>>},
   ReviseStep : {<<>>}, CreateBranch : {FALSE}, EstimatedTotal : {0}]
  \cup [SessionID : {"a"}, Thought : {"t2"}, NextNeeded : {<<FALSE>>},
        ReviseStep : {<<>>}, CreateBranch : {FALSE}, EstimatedTotal : {7}]
  \cup [SessionID : {"a"}, Thought : {"r"}, NextNeeded : {<<>>},
        ReviseStep : {<<1>>}, CreateBranch : {FALSE}, EstimatedTotal : {0}]
  \cup [SessionID : {"a"}, Thought : {"b"}, NextNeeded : {<<>>},
        ReviseStep : {<<>>}, CreateBranch : {TRUE}, EstimatedTotal : {0}]

ReviewInputs == [SessionID : {"a"}]

HistoryInputs == [SessionID : {"sessions"}]

\* what a goroutine does once a call is issued
Step(p) ==
  \/ SetSessionLock(p)
  \/ SetSessionStore(p)
  \/ CASRLock(p)
  \/ CASRead(p)
  \/ CASUpdate(p)
  \/ CASLock(p)
  \/ CASCommit(p)
  \/ SnapshotRLock(p)
  \/ SnapshotRead(p)

\* what a goroutine does once a call of StartThinking or ContinueThinking is
\* issued
WriteStep(p) ==
  \/ SetSessionLock(p)
  \/ SetSessionStore(p)
  \/ CASRLock(p)
  \/ CASRead(p)
  \/ CASUpdate(p)
  \/ CASLock(p)
  \/ CASCommit(p)

\* concurrent goroutines, each issuing any of the calls
Next ==
  \E p \in Procs :
    \/ \E a \in StartInputs : ops < MaxOps /\ StartThinking(p, a)
    \/ \E a \in ContinueInputs : ops < MaxOps /\ ContinueThinking(p, a)
    \/ \E a \in ReviewInputs : ops < MaxOps /\ ReviewThinking(p, a)
    \/ \E a \in HistoryInputs : ops < MaxOps /\ ThinkingHistory(p, a)
    \/ Step(p)

Spec == Init /\ [][Next]_vars


(***************************************************************************)
(* One goroutine issuing calls one after the other: longer histories and   *)
(* more arguments than the concurrent specification affords.               *)
(***************************************************************************)
SeqStartInputs ==
  [Problem : {"p"}, SessionID : {"a", "a_branch_1"}, EstimatedSteps : {0}]
  \cup [Problem : {"p"}, SessionID : {"a", ""}, EstimatedSteps : {3}]

SeqContinueInputs ==
  [SessionID : {"a", "a_branch_1"}, Thought : {"t1"}, NextNeeded : {<<>>},
   ReviseStep : {<<>>}, CreateBranch : {FALSE}, EstimatedTotal : {0}]
  \cup [SessionID : {"a"}, Thought : {"t2"}, NextNeeded : {<<FALSE>>},
        ReviseStep : {<<>>}, CreateBranch : {FALSE}, EstimatedTotal : {7}]
  \cup [SessionID : {"a"}, Thought : {"t2"}, NextNeeded : {<<TRUE>>},
        ReviseStep : {<<>>}, CreateBranch : {FALSE}, EstimatedTotal : {-1}]
  \cup [SessionID : {"a"}, Thought : {"r"}, NextNeeded : {<<>>},
        ReviseStep : {<<0>>, <<1>>, <<2>>}, CreateBranch : {FALSE},
        EstimatedTotal : {0}]
  \cup [SessionID : {"a_branch_1"}, Thought : {"r"}, NextNeeded : {<<>>},
        ReviseStep : {<<1>>}, CreateBranch : {FALSE}, EstimatedTotal : {0}]
  \cup [SessionID : {"a"}, Thought : {"b"}, NextNeeded : {<<>>},
        ReviseStep : {<<>>}, CreateBranch : {TRUE}, EstimatedTotal : {0}]

NextSeq ==
  \/ \E a \in SeqStartInputs : ops < MaxSeqOps /\ StartThinking("p1", a)
  \/ \E a \in SeqContinueInputs : ops < MaxSeqOps /\ ContinueThinking("p1", a)
  \/ \E a \in ReviewInputs : ops < MaxSeqOps /\ ReviewThinking("p1", a)
  \/ \E a \in HistoryInputs : ops < MaxSeqOps /\ ThinkingHistory("p1", a)
  \/ Step("p1")

SpecSeq == Init /\ [][NextSeq]_vars

(***************************************************************************)
(* A direct caller of the store's read methods, which keeps what it gets   *)
(* back and writes to it, beside a goroutine running the handlers.         *)
(***************************************************************************)
MaxStoreOps == 3 \* calls issued in one behaviour with a direct caller
MaxMuts == 1     \* writes the caller makes to what one call returned

StoreInputs ==
  [method : {"Session", "SessionSnapshot"}, SessionID : {"a"}]
  \cup [method : {"Sessions", "SessionsSnapshot"}, SessionID : {""}]

\* a call of Session, Sessions, SessionSnapshot or SessionsSnapshot
StoreCall(p, a) ==
  /\ pc[p] = "idle"
  /\ args' = [args EXCEPT ![p] = [op |-> a.method, SessionID |-> a.SessionID]]
  /\ loc' = [loc EXCEPT ![p] = LocInit]
  /\ held' = [held EXCEPT ![p] = NoHeld]
  /\ pc' = [pc EXCEPT ![p] = "get_rlock"]
  /\ ret' = [ret EXCEPT ![p] = NoResult]
  /\ ops' = ops + 1
  /\ heap' = Collect(heap, Roots(sessions, loc', held'))
  /\ UNCHANGED <<sessions, mu, hist, thinking>>

\* s.mu.RLock() of the four read methods
StoreRLock(p) ==
  /\ pc[p] = "get_rlock"
  /\ CanRLock
  /\ mu' = RLock(p)
  /\ pc' = [pc EXCEPT ![p] = "get_read"]
  /\ UNCHANGED <<sessions, heap, args, loc, ret, held, hist, ops, thinking>>

\* Session: the map's entry itself
Session(h, id) ==
  IF id \notin DOMAIN sessions THEN [heap |-> h, refs |-> <<>>, exists |-> FALSE]
  ELSE [heap |-> h, refs |-> <<sessions[id]>>, exists |-> TRUE]

\* Sessions: gmap.Values, the map's entries in the order o of the range
Sessions(h, o) ==
  [heap |-> h, refs |-> [i \in 1..Len(o) |-> sessions[o[i]]], exists |-> TRUE]

\* the body of the read method, the deferred RUnlock and the return
StoreRead(p) ==
  /\ pc[p] = "get_read"
  /\ \E o \in Orders(DOMAIN sessions) :
       LET m == args[p].op
           r == IF m = "Session" THEN Session(heap, args[p].SessionID)
                ELSE IF m = "Sessions" THEN Sessions(heap, o)
                ELSE IF m = "SessionSnapshot"
                THEN SessionSnapshot(heap, args[p].SessionID)
                ELSE SessionsSnapshot(heap, o)
       IN  /\ held' = [held EXCEPT ![p] = [via |-> m, refs |-> r.refs, muts |-> 0]]
           /\ ret' = [ret EXCEPT ![p] =
                        Result(m, IF r.exists THEN "nil" ELSE "not found",
                               args[p].SessionID, 0, loc[p])]
           /\ heap' = Collect(r.heap, Roots(sessions, loc, held'))
  /\ mu' = RUnlock(p)
  /\ pc' = [pc EXCEPT ![p] = "idle"]
  /\ args' = [args EXCEPT ![p] = NoArgs]
  /\ UNCHANGED <<sessions, loc, hist, ops, thinking>>

\* the writes a caller can make through a *ThinkingSession s it holds: to its
\* fields, to a Thought it points to, to an element of its branch list
Writes(h, s) ==
  {[h EXCEPT ![s].Status = "paused", ![s].Version = @ + 1]}
  \cup {[h EXCEPT ![s].Thoughts = NIL, ![s].CurrentThought = 0]}
  \cup {[h EXCEPT ![Thoughts(h, s)[i]].Content = "x",
                  ![Thoughts(h, s)[i]].Revised = TRUE] :
          i \in 1..Len(Thoughts(h, s))}
  \cup {[h EXCEPT ![h[s].Branches].elems[i] = "x"] :
          i \in 1..Len(Branches(h, s))}

\* the caller writes to a value it was handed
CallerWrite(p) ==
  /\ pc[p] = "idle"
  /\ held[p].muts < MaxMuts
  /\ \E i \in 1..Len(held[p].refs) : \E h \in Writes(heap, held[p].refs[i]) :
       /\ h # heap
       /\ held' = [held EXCEPT ![p].muts = @ + 1]
       /\ heap' = Collect(h, Roots(sessions, loc, held'))
  /\ UNCHANGED <<sessions, mu, pc, args, loc, ret, hist, ops, thinking>>

StoreStartInputs == [Problem : {"p"}, SessionID : {"a"}, EstimatedSteps : {0}]

StoreContinueInputs ==
  [SessionID : {"a"}, Thought : {"t1"}, NextNeeded : {<<>>},
   ReviseStep : {<<>>}, CreateBranch : {FALSE, TRUE}, EstimatedTotal : {0}]

NextStore ==
  \/ \E a \in StoreStartInputs : ops < MaxStoreOps /\ StartThinking("p1", a)
  \/ \E a \in StoreContinueInputs : ops < MaxStoreOps /\ ContinueThinking("p1", a)
  \/ SetSessionLock("p1")
  \/ SetSessionStore("p1")
  \/ CASRLock("p1")
  \/ CASRead("p1")
  \/ CASUpdate("p1")
  \/ CASLock("p1")
  \/ CASCommit("p1")
  \/ \E a \in StoreInputs : ops < MaxStoreOps /\ StoreCall("p2", a)
  \/ StoreRLock("p2")
  \/ StoreRead("p2")
  \/ CallerWrite("p2")

SpecStore == Init /\ [][NextStore]_vars


(***************************************************************************)
(* One client's session from start to review: StartThinking with an        *)
(* estimate of 3, a thought with nextNeeded = true, a thought with         *)
(* nextNeeded = false, ReviewThinking. ops is the number of calls issued.  *)
(***************************************************************************)
TripStartInputs == [Problem : {"p"}, SessionID : {"a", ""}, EstimatedSteps : {3}]

TripContinueInputs(nextNeeded) ==
  [SessionID : DOMAIN sessions, Thought : {"t1", "t2", "r"},
   NextNeeded : {nextNeeded},
   ReviseStep : {<<>>}, CreateBranch : {FALSE}, EstimatedTotal : {0}]

TripReviewInputs == [SessionID : DOMAIN sessions]

NextTrip ==
  \/ \E a \in TripStartInputs : ops = 0 /\ StartThinking("p1", a)
  \/ \E a \in TripContinueInputs(<<TRUE>>) : ops = 1 /\ ContinueThinking("p1", a)
  \/ \E a \in TripContinueInputs(<<FALSE>>) : ops = 2 /\ ContinueThinking("p1", a)
  \/ \E a \in TripReviewInputs : ops = 3 /\ ReviewThinking("p1", a)
  \/ Step("p1")

SpecTrip == Init /\ [][NextTrip]_vars


(***************************************************************************)
(* Two clients, each working on a session of its own: goroutine p1 only    *)
(* ever names session "a", goroutine p2 only session "b".                  *)
(***************************************************************************)
MaxPairOps == 4 \* calls issued in one behaviour of the two clients

OwnID(p) == IF p = "p1" THEN "a" ELSE "b"

PairStartInputs(p) ==
  [Problem : {"p"}, SessionID : {OwnID(p)}, EstimatedSteps : {0}]

PairContinueInputs(p) ==
  [SessionID : {OwnID(p)}, Thought : {"t1"}, NextNeeded : {<<>>, <<FALSE>>},
   ReviseStep : {<<>>}, CreateBranch : {FALSE}, EstimatedTotal : {0}]
  \cup [SessionID : {OwnID(p)}, Thought : {"r"}, NextNeeded : {<<>>},
        ReviseStep : {<<1>>}, CreateBranch : {FALSE}, EstimatedTotal : {0}]

NextPair ==
  \E p \in Procs :
    \/ \E a \in PairStartInputs(p) : ops < MaxPairOps /\ StartThinking(p, a)
    \/ \E a \in PairContinueInputs(p) : ops < MaxPairOps /\ ContinueThinking(p, a)
    \/ SetSessionLock(p)
    \/ SetSessionStore(p)
    \/ CASRLock(p)
    \/ CASRead(p)
    \/ CASUpdate(p)
    \/ CASLock(p)
    \/ CASCommit(p)

SpecPair == Init /\ [][NextPair]_vars


(***************************************************************************)
(* Sustained write contention on one id, under a scheduler that is hostile *)
(* to goroutine p1: p1 issues one ContinueThinking on "a", p2 keeps        *)
(* issuing them, and p1 gets the write lock for its commit only once a     *)
(* commit of p2 has gone in since p1's read. Both goroutines keep taking   *)
(* steps; the scheduler decides the order only, never an outcome.          *)
(***************************************************************************)
MaxStarveOps == 5 \* calls issued in one behaviour: the start, p1's, p2's stream

StarveStartInputs == [Problem : {"p"}, SessionID : {"a"}, EstimatedSteps : {0}]

VictimInputs ==
  [SessionID : {"a"}, Thought : {"t1"}, NextNeeded : {<<>>},
   ReviseStep : {<<>>}, CreateBranch : {FALSE}, EstimatedTotal : {0}]

WriterInputs ==
  [SessionID : {"a"}, Thought : {"t2"}, NextNeeded : {<<>>},
   ReviseStep : {<<>>}, CreateBranch : {FALSE}, EstimatedTotal : {0}]
  \cup [SessionID : {"a"}, Thought : {"r"}, NextNeeded : {<<>>},
        ReviseStep : {<<1>>}, CreateBranch : {FALSE}, EstimatedTotal : {0}]

\* p has run its update function and the entry it read has been replaced by a
\* commit since
Overtaken(p) ==
  /\ pc[p] = "cas_lock"
  /\ args[p].SessionID \in DOMAIN sessions
  /\ heap[sessions[args[p].SessionID]].Version # loc[p].oldVersion

NextStarve ==
  \/ \E a \in StarveStartInputs : ops = 0 /\ StartThinking("p2", a)
  \/ SetSessionLock("p2")
  \/ SetSessionStore("p2")
  \/ \E a \in VictimInputs :
       ops < MaxStarveOps /\ "a" \in DOMAIN sessions /\ ContinueThinking("p1", a)
  \/ \E a \in WriterInputs :
       ops < MaxStarveOps /\ "a" \in DOMAIN sessions /\ ContinueThinking("p2", a)
  \/ \E p \in Procs : CASRLock(p)
  \/ \E p \in Procs : CASRead(p)
  \/ \E p \in Procs : CASUpdate(p)
  \/ CASLock("p2")
  \/ Overtaken("p1") /\ CASLock("p1")
  \/ \E p \in Procs : CASCommit(p)

SpecStarve == Init /\ [][NextStarve]_vars


(***************************************************************************)
(* An id that is started again while a call on it is under way: goroutine  *)
(* p2 starts "a" and appends to it, more than once, while goroutine p1     *)
(* revises or appends. Long enough for a session to be completed, replaced *)
(* by a new start and brought back to the version an older read has seen.  *)
(***************************************************************************)
MaxReuseOps == 5 \* calls issued in one behaviour on the reused id

ReuseStartInputs == [Problem : {"p"}, SessionID : {"a"}, EstimatedSteps : {0}]

ReuseWriterInputs ==
  [SessionID : {"a"}, Thought : {"t1"}, NextNeeded : {<<>>, <<FALSE>>},
   ReviseStep : {<<>>}, CreateBranch : {FALSE}, EstimatedTotal : {0}]

ReuseReaderInputs ==
  [SessionID : {"a"}, Thought : {"r"}, NextNeeded : {<<>>},
   ReviseStep : {<<1>>}, CreateBranch : {FALSE}, EstimatedTotal : {0}]

NextReuse ==
  \/ \E a \in ReuseStartInputs : ops < MaxReuseOps /\ StartThinking("p2", a)
  \/ \E a \in ReuseWriterInputs : ops < MaxReuseOps /\ ContinueThinking("p2", a)
  \/ \E a \in ReuseReaderInputs : ops < MaxReuseOps /\ ContinueThinking("p1", a)
  \/ SetSessionLock("p2")
  \/ SetSessionStore("p2")
  \/ \E p \in Procs : CASRLock(p)
  \/ \E p \in Procs : CASRead(p)
  \/ \E p \in Procs : CASUpdate(p)
  \/ \E p \in Procs : CASLock(p)
  \/ \E p \in Procs : CASCommit(p)

SpecReuse == Init /\ [][NextReuse]_vars


(***************************************************************************)
(* A branch being created while another client reads and continues the     *)
(* branch session: goroutine p1 starts "a" and branches it, goroutine p2   *)
(* names the id of the branch.                                             *)
(***************************************************************************)
MaxBranchOps == 3 \* calls issued in one behaviour around a branch creation

BranchStartInputs == [Problem : {"p"}, SessionID : {"a"}, EstimatedSteps : {0}]

BranchContinueInputs ==
  [SessionID : {"a"}, Thought : {"b"}, NextNeeded : {<<>>},
   ReviseStep : {<<>>}, CreateBranch : {TRUE}, EstimatedTotal : {0}]

BranchUserInputs ==
  [SessionID : {"a_branch_1"}, Thought : {"t1"}, NextNeeded : {<<>>},
   ReviseStep : {<<>>}, CreateBranch : {FALSE}, EstimatedTotal : {0}]

BranchReviewInputs == [SessionID : {"a", "a_branch_1"}]

NextBranch ==
  \/ \E a \in BranchStartInputs : ops < MaxBranchOps /\ StartThinking("p1", a)
  \/ \E a \in BranchContinueInputs : ops < MaxBranchOps /\ ContinueThinking("p1", a)
  \/ \E a \in BranchUserInputs : ops < MaxBranchOps /\ ContinueThinking("p2", a)
  \/ \E a \in BranchReviewInputs : ops < MaxBranchOps /\ ReviewThinking("p2", a)
  \/ \E p \in Procs : Step(p)

SpecBranch == Init /\ [][NextBranch]_vars


(***************************************************************************)
(* One client that starts sessions under ids of its choice, the id         *)
(* "sessions" among them, and reads the thinking:// resource of an id, of  *)
(* "sessions" and of an id nothing is stored under.                        *)
(***************************************************************************)
MaxExportOps == 4 \* calls issued in one behaviour of the exporting client

ExportStartInputs ==
  [Problem : {"p"}, SessionID : {"a", "sessions"}, EstimatedSteps : {0}]

ExportContinueInputs ==
  [SessionID : {"a", "sessions"}, Thought : {"t1"}, NextNeeded : {<<>>},
   ReviseStep : {<<>>}, CreateBranch : {FALSE}, EstimatedTotal : {0}]

ExportHistoryInputs == [SessionID : {"a", "b", "sessions"}]

NextExport ==
  \/ \E a \in ExportStartInputs : ops < MaxExportOps /\ StartThinking("p1", a)
  \/ \E a \in ExportContinueInputs : ops < MaxExportOps /\ ContinueThinking("p1", a)
  \/ \E a \in ExportHistoryInputs : ops < MaxExportOps /\ ThinkingHistory("p1", a)
  \/ Step("p1")

SpecExport == Init /\ [][NextExport]_vars


(***************************************************************************)
(* One client whose arguments include an empty problem text and negative   *)
(* step counts.                                                            *)
(***************************************************************************)
MaxArgOps == 3 \* calls issued in one behaviour of the client

ArgStartInputs ==
  [Problem : {"p", ""}, SessionID : {"a"}, EstimatedSteps : {0, 3, -1}]

ArgContinueInputs ==
  [SessionID : {"a"}, Thought : {"t1"}, NextNeeded : {<<>>, <<FALSE>>},
   ReviseStep : {<<>>}, CreateBranch : {FALSE}, EstimatedTotal : {0, 7, -1}]

NextArg ==
  \/ \E a \in ArgStartInputs : ops < MaxArgOps /\ StartThinking("p1", a)
  \/ \E a \in ArgContinueInputs : ops < MaxArgOps /\ ContinueThinking("p1", a)
  \/ \E a \in ReviewInputs : ops < MaxArgOps /\ ReviewThinking("p1", a)
  \/ Step("p1")

SpecArg == Init /\ [][NextArg]_vars


(***************************************************************************)
(* A finite workload under a fair scheduler: two goroutines issue a        *)
(* bounded number of calls on one id, and a goroutine that can take a step *)
(* is not left waiting for ever.                                           *)
(***************************************************************************)
MaxFairOps == 4 \* calls issued in one behaviour of the finite workload

FairStartInputs == [Problem : {"p"}, SessionID : {"a"}, EstimatedSteps : {0}]

FairContinueInputs ==
  [SessionID : {"a"}, Thought : {"t1"}, NextNeeded : {<<>>},
   ReviseStep : {<<>>}, CreateBranch : {FALSE}, EstimatedTotal : {0}]
  \cup [SessionID : {"a"}, Thought : {"r"}, NextNeeded : {<<>>},
        ReviseStep : {<<1>>}, CreateBranch : {FALSE}, EstimatedTotal : {0}]

NextFair ==
  \/ \E a \in FairStartInputs : ops = 0 /\ StartThinking("p2", a)
  \/ \E p \in Procs : \E a \in FairContinueInputs :
       ops < MaxFairOps /\ "a" \in DOMAIN sessions /\ ContinueThinking(p, a)
  \/ \E p \in Procs : WriteStep(p)

Labels ==
  {"idle", "set_lock", "set_store", "cas_rlock", "cas_read", "cas_update",
   "cas_lock", "cas_commit", "snap_rlock", "snap_read"}

\* goroutine p is in a call and not blocked on the mutex: its step is enabled
Runnable(p) ==
  \/ pc[p] \in {"set_lock", "cas_lock"} /\ CanLock
  \/ pc[p] \in {"cas_rlock", "snap_rlock"} /\ CanRLock
  \/ pc[p] \in {"set_store", "cas_read", "cas_update", "cas_commit", "snap_read"}

\* the scheduler runs goroutine p: the steps of NextFair in which a runnable
\* p moves on are its steps
Scheduled(p) ==
  /\ Runnable(p)
  /\ \E l \in Labels \ {pc[p]} : pc' = [pc EXCEPT ![p] = l]

SpecFair ==
  Init /\ [][NextFair]_vars /\ \A p \in Procs : WF_pc(Scheduled(p))

\* a branch being created while another client names its id, under the same
\* scheduler: no goroutine crashes or is left waiting for ever when it can
\* take its step
SpecBranchFair ==
  Init /\ [][NextBranch]_vars /\ \A p \in Procs : WF_pc(Scheduled(p))


(***************************************************************************)
(* Branches of branches: two goroutines start and branch the sessions "a"  *)
(* and "a_branch_1", the second of which is also the first branch of "a".  *)
(***************************************************************************)
MaxDenseOps == 4 \* calls issued in one behaviour of starts and branches

DenseStartInputs ==
  [Problem : {"p"}, SessionID : {"a", "a_branch_1"}, EstimatedSteps : {0}]

DenseContinueInputs ==
  [SessionID : {"a", "a_branch_1"}, Thought : {"b"}, NextNeeded : {<<>>},
   ReviseStep : {<<>>}, CreateBranch : {TRUE}, EstimatedTotal : {0}]

NextDense ==
  \/ \E p \in Procs : \E a \in DenseStartInputs :
       ops < MaxDenseOps /\ StartThinking(p, a)
  \/ \E p \in Procs : \E a \in DenseContinueInputs :
       ops < MaxDenseOps /\ ContinueThinking(p, a)
  \/ \E p \in Procs : WriteStep(p)

SpecDense == Init /\ [][NextDense]_vars


(***************************************************************************)
(* One client whose calls of ContinueThinking combine reviseStep,          *)
(* createBranch, nextNeeded and estimatedTotal in every way.               *)
(***************************************************************************)
MaxModeOps == 4 \* calls issued in one behaviour of the client

ModeStartInputs == [Problem : {"p"}, SessionID : {"a"}, EstimatedSteps : {0}]

ModeContinueInputs ==
  [SessionID : {"a"}, Thought : {"t1"}, NextNeeded : {<<>>},
   ReviseStep : {<<>>}, CreateBranch : {FALSE}, EstimatedTotal : {0}]
  \cup [SessionID : {"a"}, Thought : {"x"}, NextNeeded : {<<>>, <<FALSE>>},
        ReviseStep : {<<>>, <<1>>}, CreateBranch : {TRUE, FALSE},
        EstimatedTotal : {0, 7}]

NextMode ==
  \/ \E a \in ModeStartInputs : ops = 0 /\ StartThinking("p1", a)
  \/ \E a \in ModeContinueInputs :
       ops < MaxModeOps /\ "a" \in DOMAIN sessions /\ ContinueThinking("p1", a)
  \/ WriteStep("p1")

SpecMode == Init /\ [][NextMode]_vars


(***************************************************************************)
(* A client that starts "a" again while another client's one thought for  *)
(* "a" is in flight: the second client appends, completes, branches and    *)
(* restarts the session the first one has read.                            *)
(***************************************************************************)
MaxRestartOps == 4 \* calls issued in one behaviour on the restarted id

RestartStartInputs == [Problem : {"p"}, SessionID : {"a"}, EstimatedSteps : {0}]

RestartOwnerInputs ==
  [SessionID : {"a"}, Thought : {"t2"}, NextNeeded : {<<FALSE>>},
   ReviseStep : {<<>>}, CreateBranch : {FALSE, TRUE}, EstimatedTotal : {0}]

RestartOtherInputs ==
  [SessionID : {"a"}, Thought : {"t1"}, NextNeeded : {<<>>},
   ReviseStep : {<<>>}, CreateBranch : {FALSE}, EstimatedTotal : {0}]

NextRestart ==
  \/ \E a \in RestartStartInputs : ops < MaxRestartOps /\ StartThinking("p2", a)
  \/ \E a \in RestartOwnerInputs : ops < MaxRestartOps /\ ContinueThinking("p2", a)
  \/ \E a \in RestartOtherInputs :
       /\ ops < MaxRestartOps
       /\ ret["p1"] = NoResult
       /\ ContinueThinking("p1", a)
  \/ \E p \in Procs : WriteStep(p)

SpecRestart == Init /\ [][NextRestart]_vars

(***************************************************************************)
(* The single-history server: SequentialThinkingServer.ProcessThought,     *)
(* called by concurrent goroutines on one server value.                    *)
(***************************************************************************)
MaxThoughtOps == 3 \* calls of ProcessThought issued in one behaviour

\* type ThoughtData struct
ThoughtData(thought, next, number, total, from, id) ==
  [Thought |-> thought, NextThoughtNeeded |-> next, ThoughtNumber |-> number,
   TotalThoughts |-> total, IsRevision |-> FALSE, RevisesThought |-> 0,
   BranchFromThought |-> from, BranchId |-> id, NeedsMoreThoughts |-> FALSE]

\* validateThoughtData: the error it returns, or "nil"
validateThoughtData(input) ==
  IF input.Thought = "" THEN "invalid thought: must be a string"
  ELSE IF input.ThoughtNumber <= 0
       THEN "invalid thoughtNumber: must be a number > 0"
  ELSE IF input.TotalThoughts <= 0
       THEN "invalid totalThoughts: must be a number > 0"
  ELSE "nil"

\* s.mu.Lock() returns only when no goroutine holds the mutex
mutexFreeAlways == TRUE

mutexFree == thoughtMu = NoProc

\* if input.ThoughtNumber > input.TotalThoughts { input.TotalThoughts = ... }
adjustTotal(input) ==
  IF input.ThoughtNumber > input.TotalThoughts
  THEN [input EXCEPT !.TotalThoughts = input.ThoughtNumber]
  ELSE input

\* the condition under which ProcessThought records the thought in a branch
recordsBranch(input) == input.BranchFromThought < 0 /\ input.BranchId # ""

\* the branch ids of this model in the order of Go's string comparison
BranchIdOrder == <<"a", "b">>

\* slices.Sorted(maps.Keys(s.branches))
sortedKeys(m) == SelectSeq(BranchIdOrder, LAMBDA k : k \in DOMAIN m)

\* the call arrives: ProcessThought up to s.mu.Lock()
ProcessThought(p, input) ==
  /\ thinker[p].pc = "idle"
  /\ thinker' = [thinker EXCEPT ![p] = [pc |-> "pt_lock", input |-> input]]
  /\ ops' = ops + 1
  /\ UNCHANGED <<thoughtHistory, branches, thoughtMu, replies, storing>>

\* s.mu.Lock()
PTLock(p) ==
  /\ thinker[p].pc = "pt_lock"
  /\ mutexFree
  /\ thoughtMu' = p
  /\ thinker' = [thinker EXCEPT ![p].pc = "pt_validate"]
  /\ UNCHANGED <<thoughtHistory, branches, replies, ops, storing>>

\* validateThoughtData; on an error s.mu.Unlock() and return nil, nil, err
PTValidate(p) ==
  /\ thinker[p].pc = "pt_validate"
  /\ LET input == thinker[p].input
         err   == validateThoughtData(input)
     IN  IF err # "nil"
         THEN /\ thoughtMu' = NoProc
              /\ thinker' = [thinker EXCEPT ![p] = NoThinker]
              /\ replies' = Append(replies, [by |-> p, input |-> input,
                                             err |-> err, response |-> <<>>])
         ELSE /\ thinker' = [thinker EXCEPT ![p].pc = "pt_append"]
              /\ UNCHANGED <<thoughtMu, replies>>
  /\ UNCHANGED <<thoughtHistory, branches, ops, storing>>

\* the total is raised to the number; s.thoughtHistory = append(..., input)
PTAppend(p) ==
  /\ thinker[p].pc = "pt_append"
  /\ LET input == adjustTotal(thinker[p].input)
     IN  /\ thoughtHistory' = Append(thoughtHistory, input)
         /\ thinker' = [thinker EXCEPT ![p] = [pc |-> "pt_branch",
                                               input |-> input]]
  /\ UNCHANGED <<branches, thoughtMu, replies, ops, storing>>

\* the thought is appended to s.branches[input.BranchId], created if missing
PTBranch(p) ==
  /\ thinker[p].pc = "pt_branch"
  /\ LET input    == thinker[p].input
         branchID == input.BranchId
     IN  IF recordsBranch(input)
         THEN branches' =
                (branchID :> Append(IF branchID \in DOMAIN branches
                                    THEN branches[branchID] ELSE <<>>, input))
                @@ branches
         ELSE UNCHANGED branches
  /\ thinker' = [thinker EXCEPT ![p].pc = "pt_respond"]
  /\ UNCHANGED <<thoughtHistory, thoughtMu, replies, ops, storing>>

\* the response is built from the server's state, s.mu.Unlock(), and the
\* response is marshalled and returned
PTRespond(p) ==
  /\ thinker[p].pc = "pt_respond"
  /\ LET input    == thinker[p].input
         response == [thoughtNumber |-> input.ThoughtNumber,
                      totalThoughts |-> input.TotalThoughts,
                      nextThoughtNeeded |-> input.NextThoughtNeeded,
                      branches |-> sortedKeys(branches),
                      thoughtHistoryLength |-> Len(thoughtHistory)]
     IN  replies' = Append(replies, [by |-> p, input |-> input, err |-> "nil",
                                     response |-> response])
  /\ thoughtMu' = NoProc
  /\ thinker' = [thinker EXCEPT ![p] = NoThinker]
  /\ UNCHANGED <<thoughtHistory, branches, ops, storing>>

\* thoughts that pass validation, thoughts that do not, and thoughts naming a
\* branch with a branching point inside and outside the tool's schema
ThoughtInputs ==
  {ThoughtData("t", TRUE, 1, 2, 0, ""), ThoughtData("t", FALSE, 3, 2, 0, ""),
   ThoughtData("", TRUE, 1, 2, -1, "a"), ThoughtData("t", TRUE, 0, 2, 0, ""),
   ThoughtData("t", TRUE, 1, 0, 0, ""), ThoughtData("t", TRUE, 2, 2, 1, "")}
  \cup {ThoughtData("t", TRUE, 2, 2, from, id) :
          from \in {1, -1}, id \in {"a", "b"}}

NextThought ==
  \E p \in Procs :
    \/ \E input \in ThoughtInputs :
         ops < MaxThoughtOps /\ ProcessThought(p, input)
    \/ PTLock(p)
    \/ PTValidate(p)
    \/ PTAppend(p)
    \/ PTBranch(p)
    \/ PTRespond(p)

SpecThought == Init /\ [][NextThought]_vars

(***************************************************************************)
(* Properties.                                                             *)
(***************************************************************************)
\* the session stored under id, read through its pointers
Stored(id) == Deep(heap, sessions[id])

StoredNext(id) == Deep(heap', sessions'[id])

\* goroutine p takes this step
Acts(p) == pc'[p] # pc[p]

\* this step is the SetSession of an entry for id
IsSetSession(id) ==
  \E p \in Procs : /\ pc[p] = "set_store"
                   /\ Acts(p)
                   /\ heap[loc[p].session].ID = id

\* this step is a successful commit of a CompareAndSwap on id
IsCommit(p, id) ==
  /\ pc[p] = "cas_commit"
  /\ Acts(p)
  /\ args[p].SessionID = id
  /\ pc'[p] # "cas_rlock"
  /\ id \in DOMAIN sessions

NoDuplicates(q) == \A i, j \in 1..Len(q) : i # j => q[i] # q[j]

\* a call of ContinueThinking that succeeded after a retry has returned
RetriedSuccess ==
  \E p \in Procs : ret[p].op = "continue" /\ ret[p].err = "nil" /\ ret[p].attempts >= 2

\* C1: no lost update on version. Under every id, the stored version is the
\* version of the last SetSession (0) plus the number of CompareAndSwap calls
\* that have committed on the id since, and no two of those commits started
\* from the same baseline version.
NoLostVersionUpdate ==
  \A id \in DOMAIN sessions :
    /\ heap[sessions[id]].Version = Len(hist[id].baselines)
    /\ NoDuplicates(hist[id].baselines)

\* two calls ran concurrently on one id, both committed, one after a retry
NoLostVersionUpdateWitness ==
  /\ RetriedSuccess
  /\ \E id \in DOMAIN sessions : Len(hist[id].baselines) >= 2

\* C2: concurrent appends serialise without loss. With no SetSession of the id
\* in between, the stored thoughts are those of the last SetSession followed by
\* one thought per committed append, in commit order, each holding the content
\* that append submitted unless a revision has replaced it since.
LosslessAppends ==
  \A id \in DOMAIN sessions :
    ~hist[id].overPut =>
      LET th == Stored(id).Thoughts
          ap == hist[id].appended
          n  == hist[id].putLen
      IN  /\ Len(th) = n + Len(ap)
          /\ \A j \in 1..Len(ap) :
               ~th[n + j].Revised => th[n + j].Content = ap[j]

\* two appends with different contents ran concurrently and both are stored
LosslessAppendsWitness ==
  /\ RetriedSuccess
  /\ \E id \in DOMAIN sessions :
       /\ ~hist[id].overPut
       /\ Len(hist[id].appended) = 2
       /\ hist[id].appended[1] # hist[id].appended[2]
       /\ Len(Stored(id).Thoughts) = 2

\* C3: a CompareAndSwap commit replaces only the entry it read: no commit has
\* replaced an entry that was written (by a commit or by a SetSession) after
\* the commit's own read.
CommitReplacesOnlyItsBaseline ==
  \A id \in DOMAIN hist : ~hist[id].stale

WritesToSnapshot(p) ==
  /\ held[p].via \in {"SessionSnapshot", "SessionsSnapshot"}
  /\ held'[p].muts > held[p].muts

\* C5: copy isolation of snapshots. A write of the caller to a value returned
\* by SessionSnapshot or SessionsSnapshot (a field, a thought's content or
\* revised flag, an element of its branch list) changes no stored session.
SnapshotIsolation ==
  [][\A p \in Procs :
       WritesToSnapshot(p) =>
         /\ sessions' = sessions
         /\ \A id \in DOMAIN sessions : StoredNext(id) = Stored(id)]_vars

\* the caller has written to a snapshot of a session that has a thought, and
\* the snapshot now differs from the stored session
SnapshotIsolationWitness ==
  \E p \in Procs :
    /\ held[p].via = "SessionSnapshot"
    /\ held[p].muts >= 1
    /\ Len(held[p].refs) = 1
    /\ "a" \in DOMAIN sessions
    /\ Len(Stored("a").Thoughts) >= 1
    /\ Deep(heap, held[p].refs[1]).Thoughts # Stored("a").Thoughts

\* C6: Session and Sessions hand out copies: nothing a caller got back from
\* them is, or points into, a session the map holds.
GetReturnsCopy ==
  \A p \in Procs :
    held[p].via \in {"Session", "Sessions"} =>
      Reach(heap, Range(held[p].refs)) \cap Reach(heap, Range(sessions)) = {}

\* C7: gap-free numbering. Under every id, parents and branches alike, the
\* thought at position i (counted from 1) has Index i.
GapFreeNumbering ==
  \A id \in DOMAIN sessions :
    \A i \in 1..Len(Stored(id).Thoughts) : Stored(id).Thoughts[i].Index = i

\* a parent and its branch both hold a thought: appends and a branch creation
\* have committed
GapFreeNumberingWitness ==
  /\ "a_branch_1" \in DOMAIN sessions
  /\ Len(Stored("a_branch_1").Thoughts) >= 1
  /\ Len(Stored("a").Thoughts) >= 1

\* the effect of a revision of step k on the value v of a session
RevisedAt(v, k, content) ==
  [v EXCEPT !.Thoughts[k].Content = content, !.Thoughts[k].Revised = TRUE]

BranchIsolation ==
  [][\A p \in Procs :
       (args[p].op = "continue" /\ Acts(p)
          /\ Mode(args[p]) \in {"append", "revise"}) =>
         \A y \in DOMAIN sessions \ {args[p].SessionID} :
           /\ y \in DOMAIN sessions'
           /\ StoredNext(y).Thoughts = Stored(y).Thoughts]_vars

\* after the branch was created the parent was revised and the branch appended
\* to, or the like: the two hold thoughts and differ
BranchIsolationWitness ==
  /\ "a" \in DOMAIN sessions
  /\ "a_branch_1" \in DOMAIN sessions
  /\ "a_branch_1" \in Range(Stored("a").Branches)
  /\ hist["a_branch_1"].putLen >= 1
  /\ Len(hist["a"].baselines) >= 3
  /\ Stored("a").Thoughts # Stored("a_branch_1").Thoughts

\* goroutine p's step is the SetSession that registers the branch session of
\* its ContinueThinking
RegistersBranch(p) ==
  /\ pc[p] = "set_store"
  /\ Acts(p)
  /\ args[p].op = "continue"

\* C11: the branch session. When a branch's CompareAndSwap commits, the parent
\* it stores has the branches its attempt read followed by parent_branch_(k+1),
\* k being their number; and the session then registered is stored under that
\* id with the thoughts that same attempt read, status active, CurrentThought
\* their number, version 0 and no branches of its own.
BranchSessionOfCommittedAttempt ==
  [][\A p \in Procs :
       LET parent == args[p].SessionID
           base   == loc[p].base
           bid    == parent \o "_branch_" \o ToString(Len(base.Branches) + 1)
       IN  /\ (IsCommit(p, parent) /\ Mode(args[p]) = "branch") =>
                /\ StoredNext(parent).Branches = Append(base.Branches, bid)
                /\ StoredNext(parent).Thoughts = base.Thoughts
                /\ ~loc[p].dirty => Stored(parent) = base
                /\ loc'[p].base = base
           /\ RegistersBranch(p) =>
                /\ bid \in DOMAIN sessions'
                /\ ret'[p].id = bid
                /\ StoredNext(bid) =
                     [Deep(heap, loc[p].session) EXCEPT
                        !.ID = bid, !.Thoughts = base.Thoughts,
                        !.CurrentThought = Len(base.Thoughts),
                        !.Status = "active", !.Version = 0,
                        !.Branches = <<>>]
                /\ StoredNext(bid) = Deep(heap, loc[p].session)]_vars

\* a branch whose first attempt lost to an append has been registered with the
\* thought its committed attempt read
BranchSessionOfCommittedAttemptWitness ==
  /\ \E p \in Procs : /\ ret[p].op = "continue" /\ ret[p].err = "nil"
                      /\ ret[p].id = "a_branch_1" /\ ret[p].attempts >= 2
  /\ "a_branch_1" \in DOMAIN sessions
  /\ Len(Stored("a_branch_1").Thoughts) = 1
  /\ "a" \in DOMAIN sessions
  /\ Stored("a").Branches = <<"a_branch_1">>

\* C12: the session from start to review. Once the start (estimate 3) has
\* returned the stored session is active with EstimatedTotal 3 and no thought;
\* once the continue with nextNeeded = true has returned it has one thought,
\* of Index 1, CurrentThought 1 and is active; once the continue with
\* nextNeeded = false has returned it has two thoughts and is completed; and
\* the review then returned lists the two submitted thoughts in order, neither
\* marked as revised.
StartToReview ==
  pc["p1"] = "idle" =>
    \A id \in DOMAIN sessions :
      LET v  == Stored(id)
          ap == hist[id].appended
      IN  /\ ops = 1 => /\ v.Status = "active"
                        /\ v.EstimatedTotal = 3
                        /\ v.Thoughts = <<>>
          /\ ops = 2 => /\ Len(v.Thoughts) = 1
                        /\ v.Thoughts[1].Index = 1
                        /\ v.Thoughts[1].Content = ap[1]
                        /\ v.CurrentThought = 1
                        /\ v.Status = "active"
          /\ ops = 3 => /\ Len(v.Thoughts) = 2
                        /\ v.Status = "completed"
          /\ ops = 4 => /\ ret["p1"].op = "review"
                        /\ ret["p1"].err = "nil"
                        /\ Len(ap) = 2
                        /\ ret["p1"].out.Sequence =
                             <<[n |-> 1, Content |-> ap[1], status |-> ""],
                               [n |-> 2, Content |-> ap[2], status |-> ""]>>
                        /\ ret["p1"].out.Status = "completed"

\* the review at the end of the session has returned
StartToReviewWitness ==
  /\ ops = 4
  /\ pc["p1"] = "idle"
  /\ ret["p1"].op = "review"
  /\ ret["p1"].out.Steps = 2
  /\ ret["p1"].out.Of = 3

\* goroutine p's step is the SetSession of the session its StartThinking built
RegistersStart(p) ==
  /\ pc[p] = "set_store"
  /\ Acts(p)
  /\ args[p].op = "start"

\* C13: what StartThinking registers. The session is stored under the id the
\* caller gave, or under a generated id not in use when it gave none, with the
\* caller's problem, status active, no thought, CurrentThought 0, no branch,
\* version 0, and EstimatedTotal the caller's estimate, or 5 when it gave none.
StartRegistersFreshSession ==
  [][\A p \in Procs :
       RegistersStart(p) =>
         LET id == heap[loc[p].session].ID
             v  == StoredNext(id)
         IN  /\ id \in DOMAIN sessions'
             /\ IF args[p].SessionID = ""
                THEN id \in GenIDs /\ id \notin DOMAIN sessions
                ELSE id = args[p].SessionID
             /\ ret'[p].id = id
             /\ v = [v EXCEPT !.ID = id, !.Problem = args[p].Problem,
                              !.Status = "active", !.Thoughts = <<>>,
                              !.CurrentThought = 0, !.Branches = <<>>,
                              !.Version = 0,
                              !.EstimatedTotal =
                                 IF args[p].EstimatedSteps = 0 THEN 5
                                 ELSE args[p].EstimatedSteps]]_vars

\* sessions were started with an estimate of 3 under a generated id and with
\* no estimate under a given one
StartRegistersFreshSessionWitness ==
  /\ \E id \in GenIDs \cap DOMAIN sessions : Stored(id).EstimatedTotal = 3
  /\ "a" \in DOMAIN sessions
  /\ Stored("a").EstimatedTotal = 5
  /\ Stored("a").Thoughts = <<>>

\* C14: a committed append stores the session its attempt read with exactly
\* one thought added at the end (Index the former length + 1, the caller's
\* content, not revised), CurrentThought that index, EstimatedTotal the
\* caller's when it is positive and the former one otherwise, status completed
\* when the caller passed nextNeeded = false and the former status otherwise
\* (nextNeeded true or absent), LastActivity and the version (+1) updated, and
\* the former thoughts and the branches as they were.
AppendFrame ==
  [][\A p \in Procs :
       (IsCommit(p, args[p].SessionID) /\ Mode(args[p]) = "append") =>
         LET a    == args[p]
             base == loc[p].base
             new  == StoredNext(a.SessionID)
             n    == Len(base.Thoughts)
         IN  /\ Len(new.Thoughts) = n + 1
             /\ new =
                  [base EXCEPT
                     !.Thoughts = Append(base.Thoughts,
                        [new.Thoughts[n + 1] EXCEPT
                           !.Index = n + 1, !.Content = a.Thought,
                           !.Revised = FALSE]),
                     !.CurrentThought = n + 1,
                     !.EstimatedTotal = IF a.EstimatedTotal > 0
                                        THEN a.EstimatedTotal ELSE @,
                     !.Status = IF a.NextNeeded = <<FALSE>> THEN "completed"
                                ELSE @,
                     !.LastActivity = new.LastActivity,
                     !.Version = base.Version + 1]
             /\ ret'[p].step = n + 1
             /\ ~loc[p].dirty => Stored(a.SessionID) = base]_vars

\* appends have committed that left the status and the estimate alone, and
\* one that completed the session and set the estimate
AppendFrameWitness ==
  /\ "a" \in DOMAIN sessions
  /\ Len(Stored("a").Thoughts) = 3
  /\ Stored("a").Status = "completed"
  /\ Stored("a").EstimatedTotal = 7
  /\ Stored("a").CurrentThought = 3
  /\ Stored("a").Thoughts[3].Content = "t2"
  /\ Stored("a").Thoughts[1].Content = "t1"

\* C15: an id that is not in the store. A CompareAndSwap that does not find
\* its id returns not found from its first read: the update function does not
\* run, there is no second attempt, and the map, the stored sessions and the
\* write history stay as they were, whichever of append, revision and branch
\* the call was; ReviewThinking of such an id returns not found and changes
\* nothing either. The update function only ever runs on an id in the store.
NotFoundChangesNothing ==
  [][\A p \in Procs :
       /\ (pc[p] = "cas_read" /\ Acts(p)
             /\ args[p].SessionID \notin DOMAIN sessions) =>
            /\ pc'[p] = "idle"
            /\ ret'[p].op = "continue"
            /\ ret'[p].err = "not found"
            /\ ret'[p].attempts = 1
            /\ loc'[p] = LocInit
            /\ sessions' = sessions
            /\ hist' = hist
            /\ \A id \in DOMAIN sessions : StoredNext(id) = Stored(id)
       /\ (pc[p] = "snap_read" /\ Acts(p) /\ args[p].op = "review"
             /\ args[p].SessionID \notin DOMAIN sessions) =>
            /\ pc'[p] = "idle"
            /\ ret'[p].err = "not found"
            /\ sessions' = sessions
            /\ hist' = hist
       /\ pc'[p] \in {"cas_update", "cas_lock", "cas_commit"} =>
            args'[p].SessionID \in DOMAIN sessions']_vars

\* a ContinueThinking and a ReviewThinking of an id nothing was started under
\* have returned
NotFoundChangesNothingWitness ==
  /\ sessions = EmptyMap
  /\ \E p, q \in Procs :
       /\ ret[p].op = "continue" /\ ret[p].err = "not found"
       /\ ret[q].op = "review" /\ ret[q].err = "not found"

\* goroutine p's step is a step of its CompareAndSwap
InCompareAndSwap(p) ==
  /\ pc[p] \in {"cas_rlock", "cas_read", "cas_update", "cas_lock", "cas_commit"}
  /\ Acts(p)

\* C16: all or nothing. A step of a CompareAndSwap on an id either leaves the
\* map, the session stored under the id and the write history as they were,
\* or is its commit and stores the whole session the update function returned,
\* with the version of the baseline + 1. When the update function fails, its
\* error is what the call returns, from that attempt, with nothing written.
AllOrNothing ==
  [][\A p \in Procs :
       InCompareAndSwap(p) =>
         LET id == args[p].SessionID
             r  == updateFunc(heap, loc[p], args[p], Now)
         IN  /\ id \in DOMAIN sessions =>
                  \/ /\ sessions' = sessions
                     /\ hist' = hist
                     /\ StoredNext(id) = Stored(id)
                  \/ /\ IsCommit(p, id)
                     /\ StoredNext(id) =
                          [Deep(heap, loc[p].updated) EXCEPT
                             !.Version = loc[p].oldVersion + 1]
             /\ (pc[p] = "cas_update" /\ r.err # "nil") =>
                  /\ pc'[p] = "idle"
                  /\ ret'[p].err = r.err
                  /\ ret'[p].attempts = loc[p].attempts
                  /\ sessions' = sessions
                  /\ hist' = hist]_vars

\* one update function has failed and its error was returned, and another has
\* been committed
AllOrNothingWitness ==
  /\ \E p \in Procs : ret[p].op = "continue" /\ ret[p].err = "invalid step number"
  /\ \E id \in DOMAIN sessions :
       /\ Len(hist[id].baselines) >= 1
       /\ heap[sessions[id]].Version >= 1

UpdateRunsUnlocked ==
  \A p \in Procs :
    /\ pc[p] \in {"cas_update", "cas_lock"} =>
         p \notin mu.readers /\ mu.writer # p
    /\ p \in mu.readers <=> pc[p] \in {"cas_read", "snap_read", "get_read"}
    /\ mu.writer = p <=> pc[p] \in {"cas_commit", "set_store"}

\* while one goroutine was at its update function, another one's write to the
\* same id went through: the first is still there, its copy out of date
UpdateRunsUnlockedWitness ==
  \E p \in Procs :
    /\ pc[p] = "cas_update"
    /\ loc[p].dirty
    /\ \E q \in Procs \ {p} : ret[q].op \in {"continue", "start"} /\ ret[q].err = "nil"

\* C19: sessions with different ids do not contend. With each of two clients
\* working on its own id, no CompareAndSwap ever fails its version check (no
\* call makes a second attempt, whatever the other client commits or puts in
\* the meantime), and every step of a client leaves the other's entry and the
\* session stored under it as they were.
DifferentIdsNeverContend ==
  [][\A p \in Procs :
       /\ loc'[p].attempts <= 1
       /\ ret'[p].attempts <= 1
       /\ ~(pc[p] = "cas_commit" /\ pc'[p] = "cas_rlock")
       /\ Acts(p) =>
            \A id \in DOMAIN sessions \ {OwnID(p)} :
              /\ id \in DOMAIN sessions'
              /\ sessions'[id] = sessions[id]
              /\ hist'[id] = hist[id]
              /\ StoredNext(id) = Stored(id)]_vars

\* the second client's whole CompareAndSwap, issued as the fourth call, has
\* committed on "b" while the first client's, which ran its update function
\* before that call was issued, is still short of its commit on "a"
DifferentIdsNeverContendWitness ==
  /\ {"a", "b"} \subseteq DOMAIN sessions
  /\ pc["p1"] = "cas_lock"
  /\ heap[loc["p1"].updated].LastActivity = 3
  /\ ret["p2"].op = "continue" /\ ret["p2"].err = "nil"
  /\ Stored("b").LastActivity = 4
  /\ Stored("b").Version = 1

\* C20: the retry loop has no bound and is not starvation-free. When the
\* competing goroutine gets a commit in between every read and commit of p1,
\* each commit step of p1 fails its version check and sends it back to its
\* read step, whatever the number of attempts it has made, and p1's call does
\* not return for as long as the competing commits keep coming.
RetryWithoutBound ==
  [][/\ ret'["p1"] = NoResult
     /\ (pc["p1"] = "cas_commit" /\ Acts("p1")) =>
          /\ pc'["p1"] = "cas_rlock"
          /\ loc'["p1"].attempts = loc["p1"].attempts
          /\ sessions' = sessions
     /\ (pc["p1"] = "cas_rlock" /\ Acts("p1")) =>
          loc'["p1"].attempts = loc["p1"].attempts + 1]_vars

\* p1 has failed its version check three times, each time against another
\* commit of p2, and is in its fourth attempt
RetryWithoutBoundWitness ==
  /\ loc["p1"].attempts = 4
  /\ pc["p1"] = "cas_update"
  /\ ret["p1"] = NoResult
  /\ Len(hist["a"].baselines) = 3
  /\ heap[sessions["a"]].Version = 3

StatusNeverReverts ==
  [][\A id \in DOMAIN sessions :
       Stored(id).Status = "completed" =>
         (id \in DOMAIN sessions' /\ StoredNext(id).Status = "completed")]_vars

\* C23: the status does not gate a revision. The update function of a
\* revision with a step in range, applied to a copy whose status is
\* completed, does not fail, and its commit stores the session with the
\* thought revised, the version of the baseline + 1 and the status still
\* completed, and returns nil.
ReviseCompletedSession ==
  [][\A p \in Procs :
       LET id   == args[p].SessionID
           k    == args[p].ReviseStep[1]
           base == loc[p].base
       IN  /\ (pc[p] = "cas_update" /\ Acts(p) /\ Mode(args[p]) = "revise"
                 /\ base.Status = "completed"
                 /\ k \in 1..Len(base.Thoughts)) =>
                /\ pc'[p] = "cas_lock"
                /\ heap'[loc'[p].updated].Status = "completed"
           /\ (IsCommit(p, id) /\ Mode(args[p]) = "revise"
                 /\ base.Status = "completed") =>
                /\ StoredNext(id).Status = "completed"
                /\ StoredNext(id).Version = base.Version + 1
                /\ StoredNext(id).Thoughts[k].Content = args[p].Thought
                /\ StoredNext(id).Thoughts[k].Revised
                /\ ret'[p].err = "nil"
                /\ ret'[p].step = k]_vars

\* a completed session has been revised and is still completed
ReviseCompletedSessionWitness ==
  /\ "a" \in DOMAIN sessions
  /\ Stored("a").Status = "completed"
  /\ Stored("a").Version = 2
  /\ Len(Stored("a").Thoughts) = 1
  /\ Stored("a").Thoughts[1].Revised
  /\ hist["a"].final

\* the branch ids the parents list and nothing is stored under
Dangling ==
  UNION {Range(Stored(id).Branches) : id \in DOMAIN sessions} \ DOMAIN sessions

\* the ids of the branch sessions whose parent is committed and which are not
\* stored yet
Registering ==
  {heap[loc[p].session].ID :
     p \in {q \in Procs : args[q].op = "continue"
                          /\ pc[q] \in {"set_lock", "set_store"}}}

\* C24: a branch is created by two writes that are not atomic. The commit of
\* the parent lists the branch id and stores nothing under it: that is left
\* to a SetSession the goroutine has yet to do. A branch id that a parent
\* lists and nothing is stored under is always one in this window, and a
\* review or a continue of such an id returns not found.
BranchWritesNotAtomic ==
  [][/\ Dangling \subseteq Registering
     /\ \A p \in Procs :
          LET id  == args[p].SessionID
              bid == id \o "_branch_" \o ToString(Len(loc[p].base.Branches) + 1)
          IN  /\ (IsCommit(p, id) /\ Mode(args[p]) = "branch"
                    /\ bid \notin DOMAIN sessions) =>
                   /\ bid \in Range(StoredNext(id).Branches)
                   /\ bid \notin DOMAIN sessions'
                   /\ pc'[p] = "set_lock"
              /\ (pc[p] \in {"cas_read", "snap_read"} /\ Acts(p)
                    /\ id \in Dangling) =>
                   /\ pc'[p] = "idle"
                   /\ ret'[p].err = "not found"
                   /\ ret'[p].id = id
                   /\ id \in Dangling']_vars

\* the parent lists a_branch_1, nothing is stored under it yet, and a call
\* naming it has returned not found
BranchWritesNotAtomicWitness ==
  /\ "a" \in DOMAIN sessions
  /\ "a_branch_1" \in Dangling
  /\ pc["p1"] \in {"set_lock", "set_store"}
  /\ ret["p2"].err = "not found"
  /\ ret["p2"].id = "a_branch_1"
  /\ Stored("a").LastActivity < ops

\* C25: the SetSession of a branch only ever inserts: nothing is stored under
\* the id of the branch session when it is registered.
BranchPutOnlyInserts ==
  [][\A p \in Procs :
       RegistersBranch(p) => heap[loc[p].session].ID \notin DOMAIN sessions]_vars

\* a stored session as a whole: as many thoughts as CurrentThought says,
\* numbered from 1, and the version of the commits made on it
Whole(id) ==
  LET v == Stored(id)
  IN  /\ v.CurrentThought = Len(v.Thoughts)
      /\ \A i \in 1..Len(v.Thoughts) : v.Thoughts[i].Index = i
      /\ v.Version = Len(hist[id].baselines)

\* C26: snapshots are of one instant. What is stored under an id changes only
\* in the step of a SetSession or of a commit, made under the write lock with
\* no reader in; it is whole before and after. A snapshot is read in one step
\* under the read lock when no writer holds the lock, and what review or
\* export return is what is stored at that step: the one session named, or
\* every stored session once, all as of that step.
SnapshotOfOneInstant ==
  [][/\ \A id \in DOMAIN sessions' :
          /\ (id \notin DOMAIN sessions \/ StoredNext(id) # Stored(id)) =>
               \E q \in Procs : /\ pc[q] \in {"set_store", "cas_commit"}
                                /\ Acts(q)
                                /\ mu.writer = q
                                /\ mu.readers = {}
          /\ id \in DOMAIN sessions => Whole(id)
     /\ \A p \in Procs :
          (pc[p] = "snap_read" /\ Acts(p) /\ ret'[p].err = "nil") =>
            LET id  == args[p].SessionID
                out == ret'[p].out
            IN  /\ mu.writer = NoProc
                /\ p \in mu.readers
                /\ sessions' = sessions
                /\ args[p].op = "review" => out = Review(Stored(id))
                /\ (args[p].op = "history" /\ id # "sessions") =>
                     out = [json |-> "object", of |-> <<Stored(id)>>]
                /\ (args[p].op = "history" /\ id = "sessions") =>
                     \E o \in Orders(DOMAIN sessions) :
                       out = [json |-> "array",
                              of |-> [i \in 1..Len(o) |-> Stored(o[i])]]]_vars

\* an export of all sessions was read while a goroutine held an append it had
\* applied to its copy and not committed: it shows the session without it
SnapshotOfOneInstantWitness ==
  /\ ret["p2"].op = "history"
  /\ ret["p2"].err = "nil"
  /\ Len(ret["p2"].out.of) = 1
  /\ ret["p2"].out.of[1].Thoughts = <<>>
  /\ ret["p2"].out.of[1].Version = 0
  /\ pc["p1"] = "cas_lock"
  /\ Len(Elems(heap, heap[loc["p1"].updated].Thoughts)) = 1

\* C27: review is a read-only projection of one snapshot. A review that
\* succeeds leaves the map, every stored session (version and LastActivity
\* included) and the write history as they were, and its text is a function
\* of what is stored under the id: id, problem, status, the number of
\* thoughts and the estimate; the thoughts in order, numbered 1..n, each with
\* its content and with the revised marker exactly when its Revised flag is
\* set; the branch ids when there are any, no branch line when there are none.
ReviewIsProjection ==
  [][\A p \in Procs :
       (pc[p] = "snap_read" /\ Acts(p) /\ args[p].op = "review"
          /\ ret'[p].err = "nil") =>
         LET v   == Stored(args[p].SessionID)
             out == ret'[p].out
         IN  /\ sessions' = sessions
             /\ hist' = hist
             /\ \A id \in DOMAIN sessions : StoredNext(id) = Stored(id)
             /\ out.ID = v.ID /\ out.Problem = v.Problem /\ out.Status = v.Status
             /\ out.Steps = Len(v.Thoughts) /\ out.Of = v.EstimatedTotal
             /\ Len(out.Sequence) = Len(v.Thoughts)
             /\ \A i \in 1..Len(v.Thoughts) :
                  /\ out.Sequence[i].n = i
                  /\ v.Thoughts[i].Index = i
                  /\ out.Sequence[i].Content = v.Thoughts[i].Content
                  /\ out.Sequence[i].status =
                       (IF v.Thoughts[i].Revised THEN " (revised)" ELSE "")
             /\ out.Branches = (IF v.Branches = <<>> THEN <<>> ELSE <<v.Branches>>)]_vars

\* a review has shown two thoughts, the first revised and the second not
ReviewIsProjectionWitness ==
  \E p \in Procs :
    /\ ret[p].op = "review"
    /\ ret[p].err = "nil"
    /\ Len(ret[p].out.Sequence) = 2
    /\ ret[p].out.Sequence[1].status = " (revised)"
    /\ ret[p].out.Sequence[2].status = ""
    /\ ret[p].out.Sequence[2].n = 2

\* C28: export resolves its selector. Selector "sessions" returns every
\* stored session; a selector that is the id of a stored session returns that
\* one session; any other selector returns not found; nothing is written.
ExportResolvesSelector ==
  [][\A p \in Procs :
       (pc[p] = "snap_read" /\ Acts(p) /\ args[p].op = "history") =>
         LET id == args[p].SessionID
         IN  /\ sessions' = sessions
             /\ id = "sessions" =>
                  /\ ret'[p].err = "nil"
                  /\ \E o \in Orders(DOMAIN sessions) :
                       ret'[p].out = [json |-> "array",
                                      of |-> [i \in 1..Len(o) |-> Stored(o[i])]]
             /\ id \in DOMAIN sessions =>
                  /\ ret'[p].err = "nil"
                  /\ ret'[p].out = [json |-> "object", of |-> <<Stored(id)>>]
             /\ (id \notin DOMAIN sessions /\ id # "sessions") =>
                  /\ ret'[p].err = "not found"
                  /\ ret'[p].id = id]_vars

\* C29: sessions are never deleted. An id that is stored stays stored in every
\* step; so a goroutine that has found its id in CompareAndSwap finds it again
\* when it re-reads the entry under the write lock, and the commit step never
\* returns not found.
NeverDeleted ==
  [][/\ DOMAIN sessions \subseteq DOMAIN sessions'
     /\ \A p \in Procs :
          /\ pc[p] \in {"cas_update", "cas_lock", "cas_commit"} =>
               args[p].SessionID \in DOMAIN sessions
          /\ (pc[p] = "cas_commit" /\ Acts(p)) =>
               /\ pc'[p] \in {"idle", "set_lock", "cas_rlock"}
               /\ pc'[p] = "idle" => ret'[p].err = "nil"]_vars

\* a session registered by start and one registered by branch are stored, and
\* a CompareAndSwap has since re-read and committed on the first
NeverDeletedWitness ==
  /\ {"a", "a_branch_1"} \subseteq DOMAIN sessions
  /\ Stored("a").Branches = <<"a_branch_1">>
  /\ Stored("a").Version = 2
  /\ Stored("a_branch_1").Version = 0

\* the call goroutine p is in was given an empty problem text or a negative
\* step count (a count of 0 is a count that was not given)
InvalidArguments(p) ==
  \/ args[p].op = "start" /\ (args[p].Problem = "" \/ args[p].EstimatedSteps < 0)
  \/ args[p].op = "continue" /\ args[p].EstimatedTotal < 0

\* C30: invalid arguments are refused and write nothing. No step of a start
\* given an empty problem text or a negative estimate, or of a continue given
\* a negative estimatedTotal, changes the map or a stored session, and the
\* call returns an error.
InvalidArgumentsRejected ==
  [][\A p \in Procs :
       (Acts(p) /\ InvalidArguments(p)) =>
         /\ sessions' = sessions
         /\ \A id \in DOMAIN sessions : StoredNext(id) = Stored(id)
         /\ pc'[p] = "idle" => ret'[p].err # "nil"]_vars

\* the objects of the sessions in the map: the sessions, their slices' backing
\* arrays and their thoughts
InStore == Reach(heap, Range(sessions))

\* the objects goroutine p works on: its copy, the result of its closure and
\* the branch session it has built
Private(p) ==
  Reach(heap, {loc[p].sessionCopy, loc[p].updated, loc[p].branchSession})

\* C31: nothing in the map is modified. An object that belongs to a session in
\* the map is written by no step: as long as it exists it holds what it held.
\* What a goroutine in CompareAndSwap writes to is its own: its objects are
\* neither in the map nor another goroutine's. A change of what is stored
\* under an id is the entry being pointed at another session, in a step taken
\* by the goroutine that holds the write lock.
StoredNeverModified ==
  [][/\ \A x \in InStore : x \in DOMAIN heap' => heap'[x] = heap[x]
     /\ \A p \in Procs :
          /\ Private(p) \cap InStore = {}
          /\ \A q \in Procs \ {p} : Private(p) \cap Private(q) = {}
     /\ \A id \in DOMAIN sessions :
          StoredNext(id) # Stored(id) =>
            /\ sessions'[id] # sessions[id]
            /\ \E q \in Procs : /\ mu.writer = q
                                /\ Acts(q)
                                /\ pc[q] \in {"set_store", "cas_commit"}]_vars

\* a revision has written to its copy of a stored session that has a thought,
\* and the stored session still shows the thought as it was
StoredNeverModifiedWitness ==
  \E p \in Procs :
    /\ pc[p] = "cas_lock"
    /\ Mode(args[p]) = "revise"
    /\ args[p].SessionID \in DOMAIN sessions
    /\ Len(Stored(args[p].SessionID).Thoughts) = 1
    /\ ~Stored(args[p].SessionID).Thoughts[1].Revised
    /\ Deep(heap, loc[p].updated).Thoughts[1].Revised

\* C32: progress of a finite workload. A commit step fails its version check
\* only if a SetSession or a commit of another goroutine wrote the id since
\* the attempt's read; so a call has made at most one more attempt than the
\* writes of other goroutines to its id since its first read; and with a
\* bounded number of calls and a fair scheduler every call returns.
FiniteWorkloadTerminates ==
  /\ [][\A p \in Procs :
          (pc[p] = "cas_commit" /\ Acts(p) /\ pc'[p] = "cas_rlock") =>
            /\ loc[p].dirty
            /\ loc[p].rivals >= 1]_vars
  /\ [](\A p \in Procs : loc[p].attempts <= loc[p].rivals + 1)
  /\ \A p \in Procs : (pc[p] # "idle") ~> (pc[p] = "idle")

\* every call of the workload has been issued and has returned, one of them
\* after its version check failed twice
FiniteWorkloadTerminatesWitness ==
  /\ ops = MaxFairOps
  /\ \A p \in Procs : pc[p] = "idle"
  /\ \E p \in Procs : ret[p].err = "nil" /\ ret[p].attempts = 3

\* C33: CurrentThought is the number of thoughts. It is so of every stored
\* session in every state; a start registers a session with no thought and
\* CurrentThought 0, a committed append stores one thought more and
\* CurrentThought that number, a committed revision stores the same number of
\* thoughts and the same CurrentThought, and a branch session is registered
\* with CurrentThought the number of thoughts it was given.
CurrentThoughtIsLength ==
  /\ [](\A id \in DOMAIN sessions :
          Stored(id).CurrentThought = Len(Stored(id).Thoughts))
  /\ [][\A p \in Procs :
          LET id == args[p].SessionID
          IN  /\ RegistersStart(p) =>
                   LET new == StoredNext(heap[loc[p].session].ID)
                   IN  new.CurrentThought = 0 /\ new.Thoughts = <<>>
              /\ RegistersBranch(p) =>
                   LET new == StoredNext(heap[loc[p].session].ID)
                   IN  /\ new.CurrentThought = Len(loc[p].base.Thoughts)
                       /\ Len(new.Thoughts) = Len(loc[p].base.Thoughts)
              /\ (IsCommit(p, id) /\ Mode(args[p]) = "append") =>
                   /\ Len(StoredNext(id).Thoughts) = Len(loc[p].base.Thoughts) + 1
                   /\ StoredNext(id).CurrentThought = Len(loc[p].base.Thoughts) + 1
              /\ (IsCommit(p, id) /\ Mode(args[p]) = "revise") =>
                   /\ Len(StoredNext(id).Thoughts) = Len(loc[p].base.Thoughts)
                   /\ StoredNext(id).CurrentThought = loc[p].base.CurrentThought]_vars

\* a session with two thoughts, one of them revised, has been branched: both
\* it and its branch session have CurrentThought 2
CurrentThoughtIsLengthWitness ==
  /\ {"a", "a_branch_1"} \subseteq DOMAIN sessions
  /\ Stored("a").CurrentThought = 2
  /\ Stored("a").Thoughts[1].Revised
  /\ Stored("a").Branches = <<"a_branch_1">>
  /\ Stored("a_branch_1").CurrentThought = 2
  /\ Len(Stored("a_branch_1").Thoughts) = 2

\* C34: what a call reports is of the attempt that committed. The step number
\* a successful append returns is the position at which its commit stored the
\* thought with the caller's text; the id a successful branch returns is the
\* id its commit appended to the parent's branches and the id its session is
\* registered under.
ResultOfCommittedAttempt ==
  [][\A p \in Procs :
       LET id == args[p].SessionID
       IN  /\ (IsCommit(p, id) /\ Mode(args[p]) = "append") =>
                LET ts == StoredNext(id).Thoughts
                IN  /\ ret'[p].err = "nil"
                    /\ ret'[p].step = Len(ts)
                    /\ ts[ret'[p].step].Index = ret'[p].step
                    /\ ts[ret'[p].step].Content = args[p].Thought
                    /\ ret'[p].step = Len(loc[p].base.Thoughts) + 1
           /\ (IsCommit(p, id) /\ Mode(args[p]) = "branch") =>
                LET bs == StoredNext(id).Branches
                IN  /\ bs # <<>>
                    /\ bs[Len(bs)] = loc'[p].branchID
                    /\ Len(bs) = Len(loc[p].base.Branches) + 1
                    /\ heap'[loc'[p].session].ID = loc'[p].branchID
           /\ RegistersBranch(p) =>
                /\ ret'[p].err = "nil"
                /\ ret'[p].id = loc[p].branchID
                /\ ret'[p].id \in DOMAIN sessions'
                /\ StoredNext(ret'[p].id).ID = ret'[p].id]_vars

\* an append that lost its first attempt to another append has returned step
\* 2, the position its thought is stored at
ResultOfCommittedAttemptWitness ==
  \E p \in Procs :
    /\ ret[p].op = "continue"
    /\ ret[p].err = "nil"
    /\ ret[p].attempts = 2
    /\ ret[p].step = 2
    /\ ret[p].id \in DOMAIN sessions
    /\ Len(Stored(ret[p].id).Thoughts) = 2
    /\ Stored(ret[p].id).Thoughts[2].Index = 2

\* C35: the branch ids of a parent are dense and unique. With k branch commits
\* on a parent since its last StartThinking, the parent lists exactly
\* parent_branch_1, ..., parent_branch_k, and under each of them a session is
\* stored or about to be by the goroutine that committed it.
BranchIdsDense ==
  \A id \in DOMAIN sessions :
    LET k == hist[id].branched
    IN  /\ Stored(id).Branches =
             [i \in 1..k |-> id \o "_branch_" \o ToString(i)]
        /\ \A i \in 1..k :
             (id \o "_branch_" \o ToString(i)) \in DOMAIN sessions \cup Registering

\* C36: a ContinueThinking does one of three things, reviseStep before
\* createBranch before append. With reviseStep set its commit stores no more
\* thoughts and no more branches than it read and the call returns without
\* registering a session, createBranch or not. With createBranch set and
\* reviseStep not, its commit stores the thoughts, CurrentThought, status and
\* estimate it read and one more branch id, and the branch session has the
\* thoughts it read: the caller's text is in neither. With neither set its
\* commit stores one more thought, the caller's, and no more branches, and the
\* call returns without registering a session.
OneOfReviseBranchAppend ==
  [][\A p \in Procs :
       LET id   == args[p].SessionID
           a    == args[p]
           base == loc[p].base
           new  == StoredNext(id)
       IN  /\ (IsCommit(p, id) /\ a.ReviseStep # <<>>) =>
                /\ Len(new.Thoughts) = Len(base.Thoughts)
                /\ new.Branches = base.Branches
                /\ DOMAIN sessions' = DOMAIN sessions
                /\ pc'[p] = "idle"
           /\ (IsCommit(p, id) /\ a.ReviseStep = <<>> /\ a.CreateBranch) =>
                /\ new.Thoughts = base.Thoughts
                /\ new.CurrentThought = base.CurrentThought
                /\ new.Status = base.Status
                /\ new.EstimatedTotal = base.EstimatedTotal
                /\ Len(new.Branches) = Len(base.Branches) + 1
                /\ pc'[p] = "set_lock"
                /\ Deep(heap', loc'[p].session).Thoughts = base.Thoughts
           /\ (IsCommit(p, id) /\ a.ReviseStep = <<>> /\ ~a.CreateBranch) =>
                /\ new.Thoughts = Append(base.Thoughts, new.Thoughts[Len(new.Thoughts)])
                /\ new.Thoughts[Len(new.Thoughts)].Content = a.Thought
                /\ new.Branches = base.Branches
                /\ DOMAIN sessions' = DOMAIN sessions
                /\ pc'[p] = "idle"
           /\ RegistersBranch(p) =>
                /\ a.ReviseStep = <<>> /\ a.CreateBranch
                /\ StoredNext(heap[loc[p].session].ID).Thoughts = base.Thoughts]_vars

\* a call with reviseStep and createBranch both set has revised step 1 of a
\* session that has no branch and is the only one stored
OneOfReviseBranchAppendWitness ==
  /\ ret["p1"].op = "continue"
  /\ ret["p1"].err = "nil"
  /\ ret["p1"].step = 1
  /\ DOMAIN sessions = {"a"}
  /\ Stored("a").Thoughts[1].Revised
  /\ Stored("a").Thoughts[1].Content = "x"
  /\ Stored("a").Branches = <<>>
  /\ Len(Stored("a").Thoughts) = 1
  /\ Stored("a").Version = 2

\* the branch ids a parent "a" can list within the calls of one behaviour
BranchIdsOfA == {"a" \o "_branch_" \o ToString(i) : i \in 1..MaxBranchOps}

\* C37: the order of the two writes of a branch. A ContinueThinking gets to
\* its SetSession only by the step in which its CompareAndSwap commits, and
\* that commit stores a parent whose list ends with parent_branch_(k+1), k the
\* number of branches read, without registering anything; the goroutine keeps
\* the branch session it built until its SetSession, which registers it under
\* that id. And every branch id that a parent lists with nothing stored under
\* it has a session stored under it later on.
ParentWriteThenBranchPut ==
  /\ [][\A p \in Procs :
          LET parent == args[p].SessionID
              bid    == parent \o "_branch_"
                          \o ToString(Len(loc[p].base.Branches) + 1)
          IN  /\ (args'[p].op = "continue" /\ pc'[p] = "set_lock"
                    /\ pc[p] # "set_lock") =>
                   /\ IsCommit(p, parent)
                   /\ StoredNext(parent).Branches[Len(loc[p].base.Branches) + 1] = bid
                   /\ DOMAIN sessions' = DOMAIN sessions
                   /\ heap'[loc'[p].session].ID = bid
              /\ (args[p].op = "continue" /\ pc[p] = "set_lock" /\ Acts(p)) =>
                   /\ pc'[p] = "set_store"
                   /\ loc'[p].session = loc[p].session
                   /\ sessions' = sessions
              /\ RegistersBranch(p) =>
                   /\ heap[loc[p].session].ID = bid
                   /\ bid \in DOMAIN sessions'
                   /\ sessions'[bid] = loc[p].session]_vars
  /\ \A b \in BranchIdsOfA : (b \in Dangling) ~> (b \in DOMAIN sessions)

\* the parent lists a_branch_1 and a_branch_2 and both are registered, the
\* second after a state in which only the parent listed it
ParentWriteThenBranchPutWitness ==
  /\ {"a", "a_branch_1", "a_branch_2"} \subseteq DOMAIN sessions
  /\ Stored("a").Branches = <<"a_branch_1", "a_branch_2">>
  /\ Stored("a_branch_2").Created = 3
  /\ \A p \in Procs : pc[p] = "idle"

\* C38: StartThinking naming a stored id replaces the session whatever is
\* stored: after its SetSession the id holds the new session, with no
\* thoughts, no branches, status active and version 0, and the call returns
\* nil. And a CompareAndSwap whose read was before a SetSession of its id and
\* that finds the version it read commits all the same: what it stores is its
\* update of the session it read (that session's creation time and problem,
\* its thoughts plus the update), not of the session stored now.
StartReplacesStoredSession ==
  [][\A p \in Procs :
       /\ RegistersStart(p) =>
            LET id == heap[loc[p].session].ID
            IN  /\ id \in DOMAIN sessions'
                /\ sessions'[id] = loc[p].session
                /\ StoredNext(id).Thoughts = <<>>
                /\ StoredNext(id).Branches = <<>>
                /\ StoredNext(id).Status = "active"
                /\ StoredNext(id).Version = 0
                /\ StoredNext(id).CurrentThought = 0
                /\ ret'[p].err = "nil"
       /\ \A id \in DOMAIN sessions :
            (/\ pc[p] = "cas_commit" /\ Acts(p) /\ args[p].SessionID = id
             /\ loc[p].reset
             /\ heap[sessions[id]].Version = loc[p].oldVersion) =>
              /\ IsCommit(p, id)
              /\ StoredNext(id) = [Deep(heap, loc[p].updated) EXCEPT
                                     !.Version = loc[p].oldVersion + 1]
              /\ StoredNext(id).Created = loc[p].base.Created
              /\ Mode(args[p]) = "append" =>
                   Len(StoredNext(id).Thoughts) = Len(loc[p].base.Thoughts) + 1]_vars

\* "a" was started again over a session at version 1, completed and with
\* the thought t2, and now holds the session created by the first start
\* again, active, with only the thought of an append that had read it at
\* version 0
StartReplacesStoredSessionWitness ==
  /\ "a" \in DOMAIN sessions
  /\ hist["a"].replaced = 1
  /\ hist["a"].overPut
  /\ hist["a"].baselines = <<0>>
  /\ Stored("a").Created = 0
  /\ Stored("a").Version = 1
  /\ Stored("a").Status = "active"
  /\ Len(Stored("a").Thoughts) = 1
  /\ Stored("a").Thoughts[1].Content = "t1"
  /\ \A p \in Procs : pc[p] = "idle"

\* the goroutines between s.mu.Lock() and s.mu.Unlock() in ProcessThought
InProcessThought ==
  {p \in Procs :
     thinker[p].pc \in {"pt_validate", "pt_append", "pt_branch", "pt_respond"}}

\* the returns of the calls that passed validation, in order of return
ValidReplies == SelectSeq(replies, LAMBDA r : r.err = "nil")

\* the calls whose validation has succeeded so far
Passed ==
  Len(ValidReplies)
  + Cardinality({p \in Procs :
                   thinker[p].pc \in {"pt_append", "pt_branch", "pt_respond"}})

\* C39: ProcessThought is serialised by s.mu and releases it on every path.
\* At most one goroutine is between Lock and Unlock, it is the holder, and
\* the mutex is free when there is none; the history holds one entry for
\* every call that has passed validation (the one about to append apart), so
\* its length is their number when no call is running; the k-th valid return
\* reports thoughtHistoryLength k, so the lengths reported are 1..n, each
\* once; a reported totalThoughts is at least the reported thoughtNumber; and
\* no step of a call whose input fails validation changes the history or
\* the branches, and such a call returns the error.
ProcessThoughtSerialized ==
  /\ [](/\ Cardinality(InProcessThought) <= 1
        /\ \A p \in Procs : p \in InProcessThought <=> thoughtMu = p
        /\ Len(thoughtHistory)
             = Passed - Cardinality({p \in Procs : thinker[p].pc = "pt_append"})
        /\ (\A p \in Procs : thinker[p].pc = "idle") =>
             Len(thoughtHistory) = Len(ValidReplies)
        /\ \A k \in 1..Len(ValidReplies) :
             /\ ValidReplies[k].response.thoughtHistoryLength = k
             /\ ValidReplies[k].response.totalThoughts
                  >= ValidReplies[k].response.thoughtNumber)
  /\ [][\A p \in Procs :
          LET input == thinker[p].input
              invalid == \/ input.Thought = ""
                         \/ input.ThoughtNumber <= 0
                         \/ input.TotalThoughts <= 0
          IN  (thinker[p].pc # "idle" /\ thinker'[p] # thinker[p] /\ invalid) =>
                /\ thoughtHistory' = thoughtHistory
                /\ branches' = branches
                /\ thinker[p].pc = "pt_validate" =>
                     /\ thinker'[p].pc = "idle"
                     /\ thoughtMu' = NoProc
                     /\ replies'[Len(replies')].err # "nil"
                     /\ replies'[Len(replies')].input = input]_vars

\* three calls have returned: an invalid one and two valid ones made by
\* different goroutines, the total raised to the number in one of them
ProcessThoughtSerializedWitness ==
  /\ Len(replies) = 3
  /\ Len(ValidReplies) = 2
  /\ Len(thoughtHistory) = 2
  /\ \E k \in 1..3 : replies[k].err # "nil"
  /\ \E k \in 1..2 : /\ ValidReplies[k].input.ThoughtNumber = 3
                     /\ ValidReplies[k].response.totalThoughts = 3
  /\ ValidReplies[1].by # ValidReplies[2].by
  /\ \A p \in Procs : thinker[p].pc = "idle"

\* the thought names a branching point the tool's schema admits and a branch
NamesBranch(input) == input.BranchFromThought >= 1 /\ input.BranchId # ""

\* C40: a valid thought with branchFromThought >= 1 and a non-empty branchId
\* is recorded under its branch id: once its call has returned, the thought
\* is in s.branches under that id, and the sorted branches of its response
\* and of every later response contain the id.
BranchThoughtRecorded ==
  /\ \A k \in 1..Len(ValidReplies) :
       LET input == ValidReplies[k].input
       IN  NamesBranch(input) =>
             /\ input.BranchId \in DOMAIN branches
             /\ \E i \in 1..Len(branches[input.BranchId]) :
                  branches[input.BranchId][i] = input
             /\ \A j \in k..Len(ValidReplies) :
                  \E i \in 1..Len(ValidReplies[j].response.branches) :
                    ValidReplies[j].response.branches[i] = input.BranchId

====
